---- MODULE Spec2Model ----
(***************************************************************************)
(* Model of the ncmdump library: the NCM container parser, the modified    *)
(* RC4 keystream, the streaming decryptor and the top-level convert.       *)
(* Bytes are integers 0..255; a file is a sequence of bytes; the reader is *)
(* a file handle (a path and a position) over the modelled disk.           *)
(*                                                                         *)
(* Spec       one call of convert, or a library caller of parse and        *)
(*            dump_audio                                                   *)
(* SpecParse  NcmFile::parse alone, on whole, cut and corrupt containers   *)
(* SpecKsa    rc4_ksa, one loop iteration per step                         *)
(* SpecArtist NcmMetadata::artist_names                                    *)
(* SpecFfi    the calls of the C interface on one handle                   *)
(* SpecCli    one run of the dump subcommand of the command line program   *)
(***************************************************************************)
EXTENDS Integers, Sequences, FiniteSets, TLC

(* ------------------------------------------------------------------ *)
(* Bounds of the model                                                 *)
(* ------------------------------------------------------------------ *)

\* longest audio payload of an input file
MaxAudio == 4

\* longest of the keys enumerated for rc4_ksa (longer ones are listed)
MaxKeyLen == 2

\* longest artist list given to artist_names
MaxArtists == 3

\* most calls made on one FFI handle, CreateNeteaseCrypt included
MaxFfiCalls == 4

\* most positional file arguments of the dump subcommand
MaxFiles == 2

(* ------------------------------------------------------------------ *)
(* Byte helpers                                                        *)
(* ------------------------------------------------------------------ *)

Min(a, b) == IF a < b THEN a ELSE b

Max(a, b) == IF a > b THEN a ELSE b

RECURSIVE XorBits(_, _, _)
XorBits(a, b, n) ==
    IF n = 0 THEN 0
    ELSE (((a % 2) + (b % 2)) % 2) + 2 * XorBits(a \div 2, b \div 2, n - 1)

\* u8 ^ u8
Xor(a, b) == XorBits(a, b, 8)

XorAll(s, m) == [i \in 1..Len(s) |-> Xor(s[i], m)]

\* the bytes of s from index `from` (0-based) to the end: &s[from..]
SliceFrom(s, from) == SubSeq(s, from + 1, Len(s))

StartsWith(s, p) == Len(s) >= Len(p) /\ SubSeq(s, 1, Len(p)) = p

IsPrefix(p, s) == StartsWith(s, p)

Ok(v) == [ok |-> TRUE, val |-> v]

Err(k) == [ok |-> FALSE, err |-> k]

\* F applied to the value of v, with v evaluated once
Bind(v, F(_)) == CHOOSE o \in { F(x) : x \in {v} } : TRUE

\* the ? operator: the error of r, or F applied to the value r carries
Then(r, F(_)) == Bind(r, LAMBDA x : IF x.ok THEN F(x.val) ELSE x)

(* ------------------------------------------------------------------ *)
(* Constants of the container format                                   *)
(* ------------------------------------------------------------------ *)

\* "CTENFDAM"
NCM_MAGIC == <<67, 84, 69, 78, 70, 68, 65, 77>>

CORE_KEY == <<104, 122, 72, 82, 65, 109, 115, 111, 53, 107, 73, 110, 98, 97, 120, 87>>

MODIFY_KEY == <<35, 49, 52, 108, 106, 107, 95, 33, 92, 93, 38, 48, 85, 60, 39, 40>>

\* "neteasecloudmusic"
KEY_PREFIX == <<110, 101, 116, 101, 97, 115, 101, 99, 108, 111, 117, 100, 109, 117, 115, 105, 99>>

\* "163 key(Don't modify):"
META_PREFIX == <<49, 54, 51, 32, 107, 101, 121, 40, 68, 111, 110, 39, 116, 32, 109, 111, 100, 105, 102, 121, 41, 58>>

\* "music:"
MUSIC_PREFIX == <<109, 117, 115, 105, 99, 58>>

\* "ID3"
ID3_MAGIC == <<73, 68, 51>>

\* AES block size in bytes
AES_BLOCK == 16

\* length of the working buffer of dump_audio
DUMP_BUF == 32768

(* ------------------------------------------------------------------ *)
(* cipher.rs                                                           *)
(* ------------------------------------------------------------------ *)

\* The AES-128 block transformation is a keyed bijection on 16-byte blocks
\* supplied by the aes crate; the model keeps a keyed bytewise bijection in
\* its place (position i of a block uses key byte i).
AesBlockByte(key, i, b) == (b + 256 - key[((i - 1) % AES_BLOCK) + 1]) % 256

\* PKCS#7 unpadding: the last byte n is 1..16 and the last n bytes equal n
Pkcs7Unpad(pt) ==
    LET n == pt[Len(pt)]
    IN  IF n >= 1 /\ n <= AES_BLOCK /\ n <= Len(pt)
           /\ \A k \in (Len(pt) - n + 1)..Len(pt) : pt[k] = n
        THEN Ok(SubSeq(pt, 1, Len(pt) - n))
        ELSE Err("Decrypt")

\* aes128_ecb_decrypt: ECB decryption with PKCS#7 unpadding; a length that
\* is not a positive multiple of the block size, or a bad padding, is the
\* Decrypt error
aes128_ecb_decrypt(key, data) ==
    IF Len(data) = 0 \/ Len(data) % AES_BLOCK # 0
    THEN Err("Decrypt")
    ELSE Pkcs7Unpad([i \in 1..Len(data) |-> AesBlockByte(key, i, data[i])])

\* An S-box is the tuple of its 256 bytes: box[i + 1] is sbox[i] of the code.
IdentityBox == [i \in 1..256 |-> i - 1]

\* mutant of ksa_step: sbox[c] is not overwritten with the saved sbox[i]
ksa_step_no_write_back(st, key, i) ==
    LET swap == st.sbox[i + 1]
        c    == (swap + st.last_byte + key[st.key_offset + 1]) % 256
        ko   == IF st.key_offset + 1 >= Len(key) THEN 0 ELSE st.key_offset + 1
        s1   == [st.sbox EXCEPT ![i + 1] = st.sbox[c + 1]]
    IN  [sbox |-> s1, last_byte |-> c, key_offset |-> ko]

\* mutant of ksa_step: last_byte keeps the value sbox[i] had
ksa_step_last_is_swap(st, key, i) ==
    LET swap == st.sbox[i + 1]
        c    == (swap + st.last_byte + key[st.key_offset + 1]) % 256
        ko   == IF st.key_offset + 1 >= Len(key) THEN 0 ELSE st.key_offset + 1
        s1   == [st.sbox EXCEPT ![i + 1] = st.sbox[c + 1]]
        s2   == [s1 EXCEPT ![c + 1] = swap]
    IN  [sbox |-> s2, last_byte |-> swap, key_offset |-> ko]

\* one iteration of the key scheduling loop; st = [sbox, last_byte, key_offset]
\* key is 1-indexed here, key_offset is the 0-based index of the code
ksa_step(st, key, i) ==
    LET swap == st.sbox[i + 1]
        c    == (swap + st.last_byte + key[st.key_offset + 1]) % 256
        ko   == IF st.key_offset + 1 >= Len(key) THEN 0 ELSE st.key_offset + 1
        s1   == [st.sbox EXCEPT ![i + 1] = st.sbox[c + 1]]
        s2   == [s1 EXCEPT ![c + 1] = swap]
    IN  [sbox |-> s2, last_byte |-> c, key_offset |-> ko]

\* the iterations lo..hi-1 of the key scheduling loop, in order (split in
\* halves to keep the evaluation shallow)
RECURSIVE ksa_loop(_, _, _, _)
ksa_loop(st, key, lo, hi) ==
    IF hi = lo + 1 THEN Bind(st, LAMBDA s : ksa_step(s, key, lo))
    ELSE Bind(ksa_loop(st, key, lo, (lo + hi) \div 2),
              LAMBDA half : ksa_loop(half, key, (lo + hi) \div 2, hi))

\* rc4_ksa: the S-box of a non-empty key (an empty key indexes key[0] and
\* aborts; parse_key tests for it)
rc4_ksa(key) ==
    ksa_loop([sbox |-> IdentityBox, last_byte |-> 0, key_offset |-> 0], key, 0, 256).sbox

\* rc4_stream_byte: the keystream byte of a position; key_box is only read
rc4_stream_byte(key_box, offset) ==
    LET j  == (offset + 1) % 256
        jv == key_box[j + 1]
    IN  key_box[((jv + key_box[((jv + j) % 256) + 1]) % 256) + 1]

(* ------------------------------------------------------------------ *)
(* Base64 (standard alphabet, padding required)                        *)
(* ------------------------------------------------------------------ *)

\* the 6-bit value of a base64 character, -1 for a byte outside the alphabet
B64Val(c) ==
    IF c >= 65 /\ c <= 90 THEN c - 65
    ELSE IF c >= 97 /\ c <= 122 THEN c - 71
    ELSE IF c >= 48 /\ c <= 57 THEN c + 4
    ELSE IF c = 43 THEN 62
    ELSE IF c = 47 THEN 63
    ELSE -1

\* '='
B64_PAD == 61

\* a group of four characters: the bytes it encodes, or <<-1>> when invalid;
\* padding is accepted in the last group only, with zero trailing bits
B64Group(g, last) ==
    LET a == B64Val(g[1])
        b == B64Val(g[2])
        c == B64Val(g[3])
        d == B64Val(g[4])
    IN  IF a < 0 \/ b < 0 THEN <<-1>>
        ELSE IF g[3] = B64_PAD /\ g[4] = B64_PAD
             THEN IF last /\ b % 16 = 0 THEN <<a * 4 + (b \div 16)>> ELSE <<-1>>
        ELSE IF c < 0 THEN <<-1>>
        ELSE IF g[4] = B64_PAD
             THEN IF last /\ c % 4 = 0
                  THEN <<a * 4 + (b \div 16), (b % 16) * 16 + (c \div 4)>>
                  ELSE <<-1>>
        ELSE IF d < 0 THEN <<-1>>
        ELSE <<a * 4 + (b \div 16), (b % 16) * 16 + (c \div 4), (c % 4) * 64 + d>>

RECURSIVE B64Groups(_, _)
B64Groups(s, k) ==
    IF k * 4 >= Len(s) THEN <<>>
    ELSE B64Group(SubSeq(s, k * 4 + 1, k * 4 + 4), (k + 1) * 4 = Len(s))
         \o B64Groups(s, k + 1)

\* BASE64.decode: the Base64 error for a length that is no multiple of 4, a
\* byte outside the alphabet or a misplaced or non-canonical padding
base64_decode(s) ==
    IF Len(s) % 4 # 0 THEN Err("Base64")
    ELSE LET out == B64Groups(s, 0)
         IN  IF \E i \in 1..Len(out) : out[i] < 0 THEN Err("Base64") ELSE Ok(out)

(* ------------------------------------------------------------------ *)
(* metadata.rs                                                         *)
(* ------------------------------------------------------------------ *)

\* A serde_json::Value is <<"String", s>>, <<"Number", n>> or <<"Null">>.
\* The JSON texts the model knows to deserialize into the metadata record
\* (all six fields present and well typed), with the record each gives.
\* Every other byte sequence is a Json error.
JSON_DOCS == <<
    [text |-> <<123, 34, 109, 117, 115, 105, 99, 78, 97, 109, 101, 34, 58, 34, 84, 101, 115, 116, 34, 44, 34, 97, 108, 98, 117, 109, 34, 58, 34, 65, 34, 44, 34, 97, 114, 116, 105, 115, 116, 34, 58, 91, 91, 34, 88, 34, 44, 48, 93, 44, 91, 34, 89, 34, 44, 49, 93, 93, 44, 34, 98, 105, 116, 114, 97, 116, 101, 34, 58, 51, 50, 48, 48, 48, 48, 44, 34, 100, 117, 114, 97, 116, 105, 111, 110, 34, 58, 50, 52, 48, 48, 48, 48, 44, 34, 102, 111, 114, 109, 97, 116, 34, 58, 34, 109, 112, 51, 34, 125>>,
     meta |-> [music_name |-> "Test", album |-> "A",
               artist |-> << << <<"String", "X">>, <<"Number", 0>> >>,
                             << <<"String", "Y">>, <<"Number", 1>> >> >>,
               bitrate |-> 320000, duration |-> 240000, format |-> "mp3"]],
    [text |-> <<123, 34, 109, 117, 115, 105, 99, 78, 97, 109, 101, 34, 58, 34, 88, 34, 44, 34, 97, 108, 98, 117, 109, 34, 58, 34, 65, 34, 44, 34, 97, 114, 116, 105, 115, 116, 34, 58, 91, 93, 44, 34, 98, 105, 116, 114, 97, 116, 101, 34, 58, 49, 50, 56, 48, 48, 48, 44, 34, 100, 117, 114, 97, 116, 105, 111, 110, 34, 58, 49, 48, 48, 48, 44, 34, 102, 111, 114, 109, 97, 116, 34, 58, 34, 102, 108, 97, 99, 34, 125>>,
     meta |-> [music_name |-> "X", album |-> "A",
               artist |-> << >>,
               bitrate |-> 128000, duration |-> 1000, format |-> "flac"]]
>>

\* serde_json::from_slice into NcmMetadata
serde_json_from_slice(bytes) ==
    IF \E i \in 1..Len(JSON_DOCS) : JSON_DOCS[i].text = bytes
    THEN Ok((CHOOSE d \in {JSON_DOCS[i] : i \in 1..Len(JSON_DOCS)} : d.text = bytes).meta)
    ELSE Err("Json")

\* NcmMetadata::from_decrypted: strips "music:" when the data starts with it
from_decrypted(data) ==
    serde_json_from_slice(IF StartsWith(data, MUSIC_PREFIX) THEN SliceFrom(data, 6) ELSE data)

\* Value::as_str: <<s>> for a string, <<>> (None) for anything else
as_str(v) == IF v[1] = "String" THEN <<v[2]>> ELSE <<>>

\* a.first().and_then(|v| v.as_str())
first_name(a) == IF Len(a) = 0 THEN <<>> ELSE as_str(a[1])

\* iter().filter_map(..).collect(): the names found, in the order of the list
RECURSIVE filter_map_names(_)
filter_map_names(artist) ==
    IF Len(artist) = 0 THEN <<>>
    ELSE first_name(Head(artist)) \o filter_map_names(Tail(artist))

\* [&str]::join
RECURSIVE join(_, _)
join(parts, sep) ==
    IF Len(parts) = 0 THEN ""
    ELSE IF Len(parts) = 1 THEN parts[1]
    ELSE parts[1] \o sep \o join(Tail(parts), sep)

\* mutant of artist_names: an entry without a name gives an empty name
artist_names_keep_unnamed(artist) ==
    join([k \in 1..Len(artist) |->
            IF first_name(artist[k]) = <<>> THEN "" ELSE first_name(artist[k])[1]],
         " / ")

\* NcmMetadata::artist_names
artist_names(artist) == join(filter_map_names(artist), " / ")

(* ------------------------------------------------------------------ *)
(* decoder.rs                                                          *)
(* ------------------------------------------------------------------ *)

\* XOR mask of the key section (0x64) and of the metadata section (0x63)
KEY_XOR == 100

META_XOR == 99

\* AudioFormat::extension
extension(format) == IF format = "Mp3" THEN "mp3" ELSE "flac"

\* mutant of read_exact: a short read is filled with zero bytes
read_exact_zero_fill(f, pos, n) ==
    Ok([k \in 1..n |-> IF pos + k <= Len(f) THEN f[pos + k] ELSE 0])

\* Read::read_exact at position pos: n bytes, or Io when fewer are left
read_exact(f, pos, n) ==
    IF pos + n <= Len(f) THEN Ok(SubSeq(f, pos + 1, pos + n)) ELSE Err("Io")

u32_from_le_bytes(b) == b[1] + 256 * b[2] + 65536 * b[3] + 16777216 * b[4]

read_u32_le(f, pos) ==
    LET r == read_exact(f, pos, 4)
    IN  IF r.ok THEN Ok(u32_from_le_bytes(r.val)) ELSE r

\* step 3 of parse: the RC4 key section, read at pos. The slice
\* key_decrypted[17..] aborts on fewer than 17 bytes, and rc4_ksa indexes
\* key[0], which aborts on an empty key.
parse_key(f, pos) ==
    Then(read_u32_le(f, pos), LAMBDA key_len :
    Then(read_exact(f, pos + 4, key_len), LAMBDA key_data :
    Then(aes128_ecb_decrypt(CORE_KEY, XorAll(key_data, KEY_XOR)), LAMBDA key_decrypted :
        IF Len(key_decrypted) < Len(KEY_PREFIX) THEN Err("Panic")
        ELSE IF Len(SliceFrom(key_decrypted, Len(KEY_PREFIX))) = 0 THEN Err("Panic")
        ELSE Ok([key_box |-> rc4_ksa(SliceFrom(key_decrypted, Len(KEY_PREFIX))),
                 pos |-> pos + 4 + key_len]))))

\* step 4 of parse, meta_len > 0: the meta_len bytes after the length field
\* at pos. The slices meta_data[22..] and decrypted[6..] abort when the data
\* is shorter.
parse_meta_present(f, pos, meta_len) ==
    Then(read_exact(f, pos + 4, meta_len), LAMBDA meta_data :
        IF Len(meta_data) < Len(META_PREFIX) THEN Err("Panic")
        ELSE
    Then(base64_decode(SliceFrom(XorAll(meta_data, META_XOR), Len(META_PREFIX))), LAMBDA decoded :
    Then(aes128_ecb_decrypt(MODIFY_KEY, decoded), LAMBDA decrypted :
        IF Len(decrypted) < Len(MUSIC_PREFIX) THEN Err("Panic")
        ELSE
    Then(from_decrypted(SliceFrom(decrypted, Len(MUSIC_PREFIX))), LAMBDA meta :
        Ok([metadata |-> <<meta>>, pos |-> pos + 4 + meta_len])))))

\* mutant of parse_meta: metadata that does not decode is taken as absent
parse_meta_lenient(f, pos) ==
    Then(read_u32_le(f, pos), LAMBDA meta_len :
        IF meta_len > 0
        THEN Bind(parse_meta_present(f, pos, meta_len), LAMBDA r :
                IF ~r.ok /\ r.err \in {"Base64", "Json"}
                THEN Ok([metadata |-> <<>>, pos |-> pos + 4 + meta_len])
                ELSE r)
        ELSE Ok([metadata |-> <<>>, pos |-> pos + 4]))

\* step 4 of parse: the metadata section, read at pos. An absent value is
\* <<>>, a present one <<m>>.
parse_meta(f, pos) ==
    Then(read_u32_le(f, pos), LAMBDA meta_len :
        IF meta_len > 0 THEN parse_meta_present(f, pos, meta_len)
        ELSE Ok([metadata |-> <<>>, pos |-> pos + 4]))

\* mutant of parse_cover: the image is the whole frame, not image_size bytes
parse_cover_whole_frame(f, pos) ==
    Then(read_u32_le(f, pos), LAMBDA cover_frame_len :
    Then(read_u32_le(f, pos + 4), LAMBDA image_size :
        IF image_size > 0
        THEN Then(read_exact(f, pos + 8, IF cover_frame_len > image_size
                                         THEN cover_frame_len ELSE image_size),
                  LAMBDA img :
                Ok([cover_image |-> <<img>>, pos |-> pos + 8 + Len(img)]))
        ELSE Ok([cover_image |-> <<>>,
                 pos |-> pos + 8 + (IF cover_frame_len > 0 THEN cover_frame_len ELSE 0)])))

\* mutant of parse_cover: a negative padding is seeked over like a positive one
parse_cover_signed_padding(f, pos) ==
    Then(read_u32_le(f, pos), LAMBDA cover_frame_len :
    Then(read_u32_le(f, pos + 4), LAMBDA image_size :
        IF image_size > 0
        THEN Then(read_exact(f, pos + 8, image_size), LAMBDA img :
                Ok([cover_image |-> <<img>>,
                    pos |-> pos + 8 + image_size + (cover_frame_len - image_size)]))
        ELSE Ok([cover_image |-> <<>>,
                 pos |-> pos + 8 + (IF cover_frame_len > 0 THEN cover_frame_len ELSE 0)])))

\* step 6 of parse: the cover frame, read at pos
parse_cover(f, pos) ==
    Then(read_u32_le(f, pos), LAMBDA cover_frame_len :
    Then(read_u32_le(f, pos + 4), LAMBDA image_size :
        IF image_size > 0
        THEN Then(read_exact(f, pos + 8, image_size), LAMBDA img :
                Ok([cover_image |-> <<img>>,
                    pos |-> pos + 8 + image_size
                            + (IF cover_frame_len - image_size > 0
                               THEN cover_frame_len - image_size ELSE 0)]))
        ELSE Ok([cover_image |-> <<>>,
                 pos |-> pos + 8 + (IF cover_frame_len > 0 THEN cover_frame_len ELSE 0)])))

\* mutant of sniff_format: only the first two bytes are compared
sniff_format_two_bytes(header, key_box) ==
    LET h == [i \in 1..2 |-> Xor(header[i], rc4_stream_byte(key_box, i - 1))]
    IN  IF h = SubSeq(ID3_MAGIC, 1, 2) THEN "Mp3" ELSE "Flac"

\* step 8 of parse: the format from the first three decrypted bytes
sniff_format(header, key_box) ==
    LET h == [i \in 1..3 |-> Xor(header[i], rc4_stream_byte(key_box, i - 1))]
    IN  IF h = ID3_MAGIC THEN "Mp3" ELSE "Flac"

\* mutant of magic_matches: only the first four bytes are compared
magic_matches_prefix(magic) == SubSeq(magic, 1, 4) = SubSeq(NCM_MAGIC, 1, 4)

\* step 1 of parse: the comparison of the first 8 bytes with the magic
magic_matches(magic) == magic = NCM_MAGIC

\* mutant of parse: a header of fewer than three bytes is filled with zeros
parse_short_header(f) ==
    Then(read_exact(f, 0, Len(NCM_MAGIC)), LAMBDA magic :
        IF ~magic_matches(magic) THEN Err("InvalidMagic")
        ELSE
    Then(parse_key(f, Len(NCM_MAGIC) + 2), LAMBDA key :
    Then(parse_meta(f, key.pos), LAMBDA meta :
    Then(parse_cover(f, meta.pos + 5), LAMBDA cover :
    Then(read_exact_zero_fill(f, cover.pos, 3), LAMBDA header :
        Ok([metadata     |-> meta.metadata,
            cover_image  |-> cover.cover_image,
            format       |-> sniff_format(header, key.key_box),
            key_box      |-> key.key_box,
            audio_offset |-> cover.pos,
            pos          |-> Min(cover.pos + 3, Max(Len(f), cover.pos))]))))))

\* NcmFile::parse on a reader at position 0 over the bytes f: the parsed
\* container with the position the reader is left at, or the error
parse(f) ==
    Then(read_exact(f, 0, Len(NCM_MAGIC)), LAMBDA magic :
        IF ~magic_matches(magic) THEN Err("InvalidMagic")
        ELSE
    Then(parse_key(f, Len(NCM_MAGIC) + 2), LAMBDA key :
    Then(parse_meta(f, key.pos), LAMBDA meta :
    Then(parse_cover(f, meta.pos + 5), LAMBDA cover :
    Then(read_exact(f, cover.pos, 3), LAMBDA header :
        Ok([metadata     |-> meta.metadata,
            cover_image  |-> cover.cover_image,
            format       |-> sniff_format(header, key.key_box),
            key_box      |-> key.key_box,
            audio_offset |-> cover.pos,
            pos          |-> cover.pos + 3]))))))

\* NcmFile::from_parts
from_parts(key_box, audio_offset) ==
    [metadata |-> <<>>, cover_image |-> <<>>, format |-> "Mp3",
     key_box |-> key_box, audio_offset |-> audio_offset]

\* mutant of decrypt_chunk: the keystream position is the index in the chunk
decrypt_chunk_in_chunk_index(key_box, offset, chunk) ==
    [i \in 1..Len(chunk) |-> Xor(chunk[i], rc4_stream_byte(key_box, i - 1))]

\* the in-place decryption of one chunk read by dump_audio at `offset`
decrypt_chunk(key_box, offset, chunk) ==
    [i \in 1..Len(chunk) |-> Xor(chunk[i], rc4_stream_byte(key_box, offset + (i - 1)))]

(* ------------------------------------------------------------------ *)
(* Input files of the model                                            *)
(* ------------------------------------------------------------------ *)

\* The sections below are written out byte by byte. Their ciphertexts were
\* produced for the block transformation AesBlockByte, and the keystreams by
\* an independent run of the key scheduling and keystream algorithms.

\* key section of the RC4 key "hello"
KEYSEC_A == <<32, 0, 0, 0, 178, 187, 216, 211, 198, 132, 188, 182, 197, 190, 218, 182, 171, 178, 143, 164, 175, 134, 201, 218, 201, 184, 25, 29, 91, 17, 55, 28, 8, 15, 230, 5>>

\* key section of the RC4 key "testkey"
KEYSEC_B == <<32, 0, 0, 0, 178, 187, 216, 211, 198, 132, 188, 182, 197, 190, 218, 182, 171, 178, 143, 164, 175, 138, 201, 161, 209, 188, 188, 140, 89, 23, 53, 18, 14, 13, 228, 59>>

\* the keystream of "hello" at positions 0..11
KEYSTREAM_A == <<255, 63, 148, 107, 103, 243, 164, 166, 125, 180, 250, 128>>

\* the keystream of "testkey" at positions 0..11
KEYSTREAM_B == <<240, 255, 41, 85, 39, 97, 167, 118, 157, 167, 26, 169>>

\* a key section whose AES plaintext ends in a 0 byte (bad padding)
KEYSEC_BADPAD == <<32, 0, 0, 0, 178, 187, 216, 211, 198, 132, 188, 182, 197, 190, 218, 182, 171, 178, 143, 164, 175, 134, 201, 218, 201, 184, 23, 11, 81, 15, 45, 10, 6, 5, 28, 51>>

\* a key section whose AES plaintext has 7 bytes
KEYSEC_SHORT == <<16, 0, 0, 0, 178, 187, 216, 211, 198, 132, 188, 28, 90, 16, 54, 19, 15, 14, 229, 4>>

\* a key section whose AES plaintext is the 17-byte prefix alone
KEYSEC_EMPTY == <<32, 0, 0, 0, 178, 187, 216, 211, 198, 132, 188, 182, 197, 190, 218, 182, 171, 178, 143, 164, 175, 237, 51, 5, 52, 24, 230, 26, 32, 30, 60, 25, 21, 20, 227, 2>>

\* meta_len = 0
METASEC_NONE == <<0, 0, 0, 0>>

\* metadata of the first JSON text (format "mp3")
METASEC_MP3 == <<194, 0, 0, 0, 82, 85, 80, 67, 8, 6, 26, 75, 39, 12, 13, 68, 23, 67, 14, 12, 7, 10, 5, 26, 74, 89, 8, 40, 2, 13, 82, 0, 81, 15, 81, 8, 51, 41, 83, 19, 14, 57, 22, 42, 18, 42, 15, 58, 11, 55, 1, 12, 85, 72, 83, 45, 40, 53, 5, 12, 15, 42, 8, 0, 36, 6, 13, 41, 53, 37, 2, 82, 2, 23, 9, 41, 6, 33, 4, 16, 84, 49, 9, 85, 51, 41, 59, 14, 36, 39, 5, 15, 44, 46, 9, 19, 2, 1, 21, 38, 81, 80, 5, 80, 90, 48, 4, 52, 81, 38, 11, 54, 90, 55, 15, 23, 59, 6, 80, 0, 32, 53, 20, 59, 90, 4, 58, 87, 7, 16, 53, 82, 11, 55, 59, 53, 1, 50, 80, 90, 80, 34, 15, 0, 59, 46, 15, 37, 40, 51, 1, 15, 23, 58, 54, 81, 37, 8, 14, 42, 25, 49, 25, 19, 51, 41, 21, 19, 19, 48, 9, 82, 85, 54, 14, 37, 57, 55, 16, 59, 15, 80, 6, 36, 20, 22, 2, 52, 12, 25, 51, 52, 41, 41, 45, 39, 54, 94>>

\* metadata of the second JSON text (format "flac")
METASEC_FLAC == <<174, 0, 0, 0, 82, 85, 80, 67, 8, 6, 26, 75, 39, 12, 13, 68, 23, 67, 14, 12, 7, 10, 5, 26, 74, 89, 8, 40, 2, 13, 82, 0, 81, 15, 81, 8, 51, 41, 83, 19, 14, 57, 22, 42, 18, 42, 15, 58, 11, 55, 1, 12, 84, 32, 9, 58, 23, 39, 21, 0, 14, 42, 19, 0, 41, 6, 58, 54, 19, 8, 54, 81, 32, 44, 26, 90, 80, 55, 10, 16, 76, 49, 48, 36, 18, 20, 14, 53, 45, 40, 11, 57, 18, 12, 80, 16, 21, 5, 27, 38, 44, 52, 9, 15, 11, 12, 11, 52, 27, 59, 53, 38, 52, 53, 18, 7, 84, 47, 80, 91, 10, 50, 26, 13, 90, 4, 58, 58, 53, 16, 53, 82, 49, 37, 15, 85, 51, 6, 82, 91, 25, 55, 50, 86, 57, 76, 9, 41, 26, 81, 13, 83, 14, 15, 46, 83, 37, 38, 5, 43, 19, 84, 1, 25, 37, 16, 1, 55, 57, 34, 57, 54, 20, 80, 44, 34, 94, 94>>

\* metadata whose text holds a byte outside the base64 alphabet
METASEC_BADB64 == <<26, 0, 0, 0, 82, 85, 80, 67, 8, 6, 26, 75, 39, 12, 13, 68, 23, 67, 14, 12, 7, 10, 5, 26, 74, 89, 34, 33, 73, 39>>

\* metadata whose JSON text lacks the fields of the record
METASEC_BADJSON == <<46, 0, 0, 0, 82, 85, 80, 67, 8, 6, 26, 75, 39, 12, 13, 68, 23, 67, 14, 12, 7, 10, 5, 26, 74, 89, 8, 40, 2, 13, 82, 0, 81, 15, 81, 19, 86, 8, 57, 48, 87, 87, 59, 54, 50, 21, 46, 34, 94, 94>>

\* metadata of 5 bytes, shorter than the 22-byte prefix
METASEC_SHORT == <<5, 0, 0, 0, 82, 85, 80, 67, 8>>

\* a key section of 5 bytes, no whole AES block
KEYSEC_ODD == <<5, 0, 0, 0, 85, 86, 87, 80, 81>>

\* metadata whose base64 text decodes to an AES block with a bad padding
METASEC_BADPAD == <<46, 0, 0, 0, 82, 85, 80, 67, 8, 6, 26, 75, 39, 12, 13, 68, 23, 67, 14, 12, 7, 10, 5, 26, 74, 89, 8, 40, 2, 13, 82, 0, 81, 15, 81, 19, 86, 0, 59, 48, 58, 20, 53, 55, 20, 13, 40, 34, 94, 94>>

\* metadata whose base64 text decodes to 3 bytes, no whole AES block
METASEC_ODD == <<26, 0, 0, 0, 82, 85, 80, 67, 8, 6, 26, 75, 39, 12, 13, 68, 23, 67, 14, 12, 7, 10, 5, 26, 74, 89, 58, 52, 41, 9>>

\* metadata whose AES plaintext has 3 bytes, fewer than the 6 of "music:"
METASEC_TINY == <<46, 0, 0, 0, 82, 85, 80, 67, 8, 6, 26, 75, 39, 12, 13, 68, 23, 67, 14, 12, 7, 10, 5, 26, 74, 89, 8, 40, 2, 13, 6, 59, 7, 87, 1, 32, 86, 19, 2, 9, 46, 90, 58, 8, 8, 83, 45, 50, 94, 94>>

\* cover frames: cover_frame_len, image_size, image bytes, padding
COVER_NONE == <<0, 0, 0, 0, 0, 0, 0, 0>>

COVER_SKIP == <<2, 0, 0, 0, 0, 0, 0, 0, 170, 187>>

COVER_PAD == <<3, 0, 0, 0, 2, 0, 0, 0, 255, 216, 0>>

COVER_NEG == <<1, 0, 0, 0, 2, 0, 0, 0, 255, 216>>

\* cover_frame_len = 0 with an image of two bytes that start no image format
COVER_RAW == <<0, 0, 0, 0, 2, 0, 0, 0, 0, 1>>

\* cover_frame_len = image_size
COVER_EQ == <<2, 0, 0, 0, 2, 0, 0, 0, 137, 80>>

\* image_size = 9 with two bytes left in the file
COVER_CUT == <<9, 0, 0, 0, 9, 0, 0, 0, 255, 216>>

CoverChoices == { COVER_NONE, COVER_SKIP, COVER_PAD, COVER_NEG, COVER_RAW, COVER_EQ }

\* plain audio streams; the inputs hold their prefixes of 0..MaxAudio bytes
AudioBases == { <<73, 68, 51, 4, 0, 0, 0, 0, 0, 0>>,
                <<102, 76, 97, 67, 0, 0, 0, 34, 16, 0>>,
                <<73, 68, 52, 3, 2, 1, 0, 9, 8, 7>> }

AudioPlains == { SubSeq(b, 1, n) : b \in AudioBases, n \in 0..MaxAudio }

EncAudio(plain, keystream) == [i \in 1..Len(plain) |-> Xor(plain[i], keystream[i])]

KeyChoices == { [sec |-> KEYSEC_A, ks |-> KEYSTREAM_A],
                [sec |-> KEYSEC_B, ks |-> KEYSTREAM_B] }

MetaChoices == { METASEC_NONE, METASEC_MP3, METASEC_FLAC }

\* a container: magic, 2-byte gap, key section, metadata section, 5 bytes of
\* CRC and image version, cover frame, encrypted audio
MkFile(magic, keysec, metasec, cover, audio) ==
    magic \o <<1, 2>> \o keysec \o metasec \o <<9, 9, 9, 9, 1>> \o cover \o audio

BAD_MAGIC_FIRST == <<65, 66, 67, 78, 70, 68, 65, 77>>

BAD_MAGIC_LAST == <<67, 84, 69, 78, 70, 68, 65, 78>>

WellFormedFiles ==
    { MkFile(NCM_MAGIC, k.sec, m, COVER_NONE, EncAudio(a, k.ks)) :
        k \in KeyChoices, m \in MetaChoices, a \in AudioPlains }
    \cup
    { MkFile(NCM_MAGIC, KEYSEC_A, m, c, EncAudio(a, KEYSTREAM_A)) :
        m \in {METASEC_NONE, METASEC_MP3}, c \in {COVER_SKIP, COVER_PAD, COVER_NEG},
        a \in { SubSeq(b, 1, 3) : b \in AudioBases } }

MalformedFiles ==
    { MkFile(mg, k.sec, m, COVER_NONE, EncAudio(a, k.ks)) :
        mg \in {BAD_MAGIC_FIRST, BAD_MAGIC_LAST}, k \in KeyChoices,
        m \in {METASEC_NONE, METASEC_MP3}, a \in { SubSeq(b, 1, 3) : b \in AudioBases } }
    \cup { BAD_MAGIC_FIRST, BAD_MAGIC_FIRST \o <<0, 0, 0>>, SubSeq(NCM_MAGIC, 1, 7), <<>> }
    \cup { MkFile(NCM_MAGIC, ks, METASEC_MP3, COVER_NONE, <<1, 2, 3>>) :
            ks \in {KEYSEC_BADPAD, KEYSEC_SHORT, KEYSEC_EMPTY} }
    \cup { MkFile(NCM_MAGIC, KEYSEC_A, ms, COVER_NONE, <<1, 2, 3>>) :
            ms \in {METASEC_BADB64, METASEC_BADJSON, METASEC_SHORT} }

InputFiles == WellFormedFiles \cup MalformedFiles

\* paths are <<directory, stem, extension>>
InputPaths == { <<"a", "song", e>> : e \in {"ncm", "mp3", "flac"} }

\* the output_dir argument of convert: <<>> is None
OutputDirs == { <<>>, <<"a">>, <<"b">> }

\* what a file left by an earlier run holds
STALE_BYTES == <<7, 7>>

Paths == { <<d, "song", e>> : d \in {"a", "b"}, e \in {"ncm", "mp3", "flac"} }

(* ------------------------------------------------------------------ *)
(* State                                                               *)
(* ------------------------------------------------------------------ *)

VARIABLES
    mode,          \* "convert": one call of convert; "library": a caller of
                   \* NcmFile::parse and dump_audio on its own reader and writer
    input,         \* the input path
    output_dir,    \* the output_dir argument: <<>> or <<dir>>
    disk,          \* path -> <<>> (no such file) or <<bytes>>
    pc,            \* the position of the call
    rpos,          \* position of the reader (the open input file)
    ncm,           \* <<>> or <<the parsed container>>
    output_path,   \* <<>> or <<the derived output path>>
    offset,        \* dump_audio's running offset
    written,       \* the bytes the writer has accepted, in order
    dump_res,      \* "none", or what dump_audio returned: "Ok" or "Io"
    tag_calls,     \* the paths write_tags was called on, in order
    result,        \* "none", or what the call returned: "Ok" or the error kind
    log,           \* history: the steps of the call (for the FFI, of the last
                   \* Dump) taken so far, in order
    disk0,         \* history: the disk before the call
    ksa_key,       \* rc4_ksa: the key argument
    ksa_i,         \* rc4_ksa: the loop index, 256 once the loop has ended
    ksa_sbox,      \* rc4_ksa: sbox
    ksa_last_byte, \* rc4_ksa: last_byte
    ksa_key_offset,\* rc4_ksa: key_offset
    std_sbox,      \* reference run of the textbook key scheduling: S
    std_j,         \* reference run of the textbook key scheduling: j
    artist,        \* artist_names: the artist field of the metadata
    names,         \* artist_names: <<>> or <<the string returned>>
    handle,        \* FFI: <<>> (null) or <<the NeteaseCrypt behind the handle>>
    ffi_arg,       \* FFI: the output_path argument of the Dump in progress
    ffi_ret,       \* FFI: what the last Dump returned, 0 or 1; -1 before any
    ffi_calls,     \* FFI: the calls made so far, in order
    ok_path,       \* FFI history: <<>> or <<the output path of the most recent
                   \* Dump that returned 0>>
    files,         \* CLI: the file list of cmd_dump
    directory,     \* CLI: --directory, <<>> or <<dir>>
    recursive,     \* CLI: --recursive
    remove,        \* CLI: --remove
    cli_i,         \* CLI: the number of files the loop has been through
    exit_code,     \* CLI: the exit code of the program, -1 while it runs
    attempts,      \* CLI history: the calls of convert, [file, res], in order
    removals       \* CLI history: the calls of remove_file, [file, ok], in order

ksa_vars == <<ksa_key, ksa_i, ksa_sbox, ksa_last_byte, ksa_key_offset, std_sbox, std_j>>

artist_vars == <<artist, names>>

ffi_vars == <<handle, ffi_arg, ffi_ret, ffi_calls, ok_path>>

cli_vars == <<files, directory, recursive, remove, cli_i, exit_code, attempts, removals>>

vars == <<mode, input, output_dir, disk, pc, rpos, ncm, output_path, offset,
          written, dump_res, tag_calls, result, log, disk0,
          ksa_vars, artist_vars, ffi_vars, cli_vars>>

\* rc4_ksa has not been called
KsaIdle ==
    /\ ksa_key = <<>> /\ ksa_i = 0 /\ ksa_sbox = <<>> /\ ksa_last_byte = 0
    /\ ksa_key_offset = 0 /\ std_sbox = <<>> /\ std_j = 0

\* artist_names has not been called
ArtistIdle == artist = <<>> /\ names = <<>>

\* no handle exists
FfiIdle ==
    /\ handle = <<>> /\ ffi_arg = <<>> /\ ffi_ret = -1 /\ ffi_calls = <<>>
    /\ ok_path = <<>>

\* the command line program is not run
CliIdle ==
    /\ files = <<>> /\ directory = <<>> /\ recursive = FALSE /\ remove = FALSE
    /\ cli_i = 0 /\ exit_code = -1 /\ attempts = <<>> /\ removals = <<>>

\* the bytes of the input file as the reader sees them now
InputBytes == IF disk[input] = <<>> THEN <<>> ELSE disk[input][1]

\* bytes left between the reader's position and the end of the file
Avail == IF Len(InputBytes) > rpos THEN Len(InputBytes) - rpos ELSE 0

\* convert's output path: output_dir, else the parent of the input, joined
\* with the input's stem and the extension of the detected format
derive_output_path(in, out_dir, format) ==
    <<IF out_dir = <<>> THEN in[1] ELSE out_dir[1], in[2], extension(format)>>

Init ==
    /\ mode \in {"convert", "library"}
    /\ input \in InputPaths
    /\ output_dir \in OutputDirs
    /\ mode = "library" => (input = <<"a", "song", "ncm">> /\ output_dir = <<>>)
    /\ \E f \in InputFiles, old \in {<<>>, <<STALE_BYTES>>} :
          disk = [p \in Paths |-> IF p = input THEN <<f>> ELSE old]
    /\ pc = "start"
    /\ rpos = 0
    /\ ncm = <<>>
    /\ output_path = <<>>
    /\ offset = 0
    /\ written = <<>>
    /\ dump_res = "none"
    /\ tag_calls = <<>>
    /\ result = "none"
    /\ log = <<>>
    /\ disk0 = disk
    /\ KsaIdle /\ ArtistIdle /\ FfiIdle /\ CliIdle

(* ------------------------------------------------------------------ *)
(* lib.rs: convert, step by step                                       *)
(* ------------------------------------------------------------------ *)

\* File::open(input) succeeds
Open ==
    /\ pc = "start" /\ mode = "convert"
    /\ pc' = "opened"
    /\ rpos' = 0
    /\ log' = Append(log, "open")
    /\ UNCHANGED <<ksa_vars, artist_vars, ffi_vars, cli_vars, disk0, mode, input, output_dir, disk, ncm, output_path, offset,
                   written, dump_res, tag_calls, result>>

\* File::open(input) fails: convert returns Io
OpenFail ==
    /\ pc = "start" /\ mode = "convert"
    /\ pc' = "done"
    /\ result' = "Io"
    /\ log' = Append(log, "open_err")
    /\ UNCHANGED <<ksa_vars, artist_vars, ffi_vars, cli_vars, disk0, mode, input, output_dir, disk, rpos, ncm, output_path, offset,
                   written, dump_res, tag_calls>>

\* NcmFile::parse(&mut file): the whole parse; an error or an abort ends the
\* call (in library mode the caller parses its own reader)
Parse ==
    /\ \/ pc = "opened" /\ mode = "convert"
       \/ pc = "start" /\ mode = "library"
    /\ \E r \in {parse(InputBytes)} :
           IF r.ok
           THEN /\ ncm' = <<[metadata |-> r.val.metadata,
                             cover_image |-> r.val.cover_image,
                             format |-> r.val.format,
                             key_box |-> r.val.key_box,
                             audio_offset |-> r.val.audio_offset]>>
                /\ rpos' = r.val.pos
                /\ pc' = "parsed"
                /\ result' = result
                /\ log' = Append(log, "parse_ok")
           ELSE /\ ncm' = ncm
                /\ rpos' = rpos
                /\ pc' = "done"
                /\ result' = r.err
                /\ log' = Append(log, "parse_err")
    /\ UNCHANGED <<ksa_vars, artist_vars, ffi_vars, cli_vars, disk0, mode, input, output_dir, disk, output_path, offset, written,
                   dump_res, tag_calls>>

\* a library caller moves its reader before it calls dump_audio
ClientSeek(p) ==
    /\ pc = "parsed" /\ mode = "library"
    /\ rpos # p
    /\ rpos' = p
    /\ pc' = "positioned"
    /\ log' = Append(log, "client_seek")
    /\ UNCHANGED <<ksa_vars, artist_vars, ffi_vars, cli_vars, disk0, mode, input, output_dir, disk, ncm, output_path, offset,
                   written, dump_res, tag_calls, result>>

\* the file behind a library caller's reader is cut to l bytes between
\* parse and dump_audio
ClientTruncate(l) ==
    /\ pc = "parsed" /\ mode = "library"
    /\ l >= 0 /\ l < Len(InputBytes)
    /\ disk' = [disk EXCEPT ![input] = <<SubSeq(InputBytes, 1, l)>>]
    /\ pc' = "positioned"
    /\ log' = Append(log, "client_truncate")
    /\ UNCHANGED <<ksa_vars, artist_vars, ffi_vars, cli_vars, disk0, mode, input, output_dir, rpos,
                   ncm, output_path, offset, written, dump_res, tag_calls, result>>

\* File::create(&output_path) succeeds: the file exists and is empty
Create ==
    /\ pc = "parsed" /\ mode = "convert"
    /\ LET p == derive_output_path(input, output_dir, ncm[1].format)
       IN  /\ output_path' = <<p>>
           /\ disk' = [disk EXCEPT ![p] = << <<>> >>]
    /\ pc' = "created"
    /\ log' = Append(log, "create")
    /\ UNCHANGED <<ksa_vars, artist_vars, ffi_vars, cli_vars, disk0, mode, input, output_dir, rpos, ncm, offset, written,
                   dump_res, tag_calls, result>>

\* File::create(&output_path) fails: convert returns Io
CreateFail ==
    /\ pc = "parsed" /\ mode = "convert"
    /\ output_path' = <<derive_output_path(input, output_dir, ncm[1].format)>>
    /\ pc' = "done"
    /\ result' = "Io"
    /\ log' = Append(log, "create_err")
    /\ UNCHANGED <<ksa_vars, artist_vars, ffi_vars, cli_vars, disk0, mode, input, output_dir, disk, rpos, ncm, offset, written,
                   dump_res, tag_calls>>

(* ------------------------------------------------------------------ *)
(* decoder.rs: dump_audio, one action per step of its loop             *)
(* ------------------------------------------------------------------ *)

\* mutant of DumpSeek: the reader is left where the caller had it
DumpSeek_no_seek ==
    /\ \/ pc = "created" /\ mode \in {"convert", "ffi"}
       \/ pc \in {"parsed", "positioned"} /\ mode = "library"
    /\ offset' = 0
    /\ pc' = "dumping"
    /\ log' = Append(log, "dump_begin")
    /\ UNCHANGED <<ksa_vars, artist_vars, ffi_vars, cli_vars, disk0, mode, input, output_dir, disk, rpos, ncm, output_path,
                   written, dump_res, tag_calls, result>>

\* r.seek(SeekFrom::Start(self.audio_offset)); offset = 0
DumpSeek ==
    /\ \/ pc = "created" /\ mode \in {"convert", "ffi"}
       \/ pc \in {"parsed", "positioned"} /\ mode = "library"
    /\ rpos' = ncm[1].audio_offset
    /\ offset' = 0
    /\ pc' = "dumping"
    /\ log' = Append(log, "dump_begin")
    /\ UNCHANGED <<ksa_vars, artist_vars, ffi_vars, cli_vars, disk0, mode, input, output_dir, disk, ncm, output_path, written,
                   dump_res, tag_calls, result>>

\* the chunk a read of n bytes returns, decrypted in place
DecryptedChunk(n) ==
    decrypt_chunk(ncm[1].key_box, offset, SubSeq(InputBytes, rpos + 1, rpos + n))

\* mutant of DumpIter: offset is not advanced after the write
DumpIter_stale_offset(n) ==
    /\ pc = "dumping"
    /\ n >= 1 /\ n <= Min(DUMP_BUF, Avail)
    /\ written' = written \o DecryptedChunk(n)
    /\ rpos' = rpos + n
    /\ UNCHANGED <<ksa_vars, artist_vars, ffi_vars, cli_vars, disk0, mode, input, output_dir, disk, pc, ncm, output_path,
                   offset, dump_res, tag_calls, result, log>>

\* mutant of DumpIter: the keystream generator swaps two entries of the
\* S-box for every chunk, as the textbook RC4 output loop does per byte
DumpIter_prga_swap(n) ==
    /\ pc = "dumping"
    /\ n >= 1 /\ n <= Min(DUMP_BUF, Avail)
    /\ written' = written \o DecryptedChunk(n)
    /\ rpos' = rpos + n
    /\ offset' = offset + n
    /\ ncm' = <<[ncm[1] EXCEPT !.key_box =
                   [@ EXCEPT ![1] = ncm[1].key_box[2], ![2] = ncm[1].key_box[1]]]>>
    /\ UNCHANGED <<ksa_vars, artist_vars, ffi_vars, cli_vars, disk0, mode, input, output_dir, disk,
                   pc, output_path, dump_res, tag_calls, result, log>>

\* one iteration: read returns n bytes (any n from 1 to what the buffer and
\* the file allow), they are decrypted, written, and offset advances by n
DumpIter(n) ==
    /\ pc = "dumping"
    /\ n >= 1 /\ n <= Min(DUMP_BUF, Avail)
    /\ written' = written \o DecryptedChunk(n)
    /\ rpos' = rpos + n
    /\ offset' = offset + n
    /\ UNCHANGED <<ksa_vars, artist_vars, ffi_vars, cli_vars, disk0, mode, input, output_dir, disk, pc, ncm, output_path,
                   dump_res, tag_calls, result, log>>

\* mutant of DumpEof: a first read that returns 0 is taken as an error
DumpEof_empty_is_error ==
    /\ pc = "dumping"
    /\ Avail = 0
    /\ dump_res' = IF offset = 0 THEN "Io" ELSE "Ok"
    /\ pc' = "dumped"
    /\ log' = Append(log, IF offset = 0 THEN "dump_empty" ELSE "dump_ok")
    /\ UNCHANGED <<ksa_vars, artist_vars, ffi_vars, cli_vars, disk0, mode, input, output_dir, disk,
                   rpos, ncm, output_path, offset, written, tag_calls, result>>

\* read returns 0: the loop ends and dump_audio returns Ok
DumpEof ==
    /\ pc = "dumping"
    /\ Avail = 0
    /\ dump_res' = "Ok"
    /\ pc' = "dumped"
    /\ log' = Append(log, "dump_ok")
    /\ UNCHANGED <<ksa_vars, artist_vars, ffi_vars, cli_vars, disk0, mode, input, output_dir, disk, rpos, ncm, output_path, offset,
                   written, tag_calls, result>>

\* read fails: dump_audio returns Io
DumpReadFail ==
    /\ pc = "dumping"
    /\ dump_res' = "Io"
    /\ pc' = "dumped"
    /\ log' = Append(log, "dump_err")
    /\ UNCHANGED <<ksa_vars, artist_vars, ffi_vars, cli_vars, disk0, mode, input, output_dir, disk, rpos, ncm, output_path, offset,
                   written, tag_calls, result>>

\* read returns n bytes and write_all fails after the writer took k < n of
\* them: dump_audio returns Io
DumpWriteFail(n, k) ==
    /\ pc = "dumping"
    /\ n >= 1 /\ n <= Min(DUMP_BUF, Avail)
    /\ k >= 0 /\ k < n
    /\ written' = written \o SubSeq(DecryptedChunk(n), 1, k)
    /\ rpos' = rpos + n
    /\ dump_res' = "Io"
    /\ pc' = "dumped"
    /\ log' = Append(log, "dump_err")
    /\ UNCHANGED <<ksa_vars, artist_vars, ffi_vars, cli_vars, disk0, mode, input, output_dir, disk, ncm, output_path, offset,
                   tag_calls, result>>

(* ------------------------------------------------------------------ *)
(* lib.rs: the end of convert                                          *)
(* ------------------------------------------------------------------ *)

\* mutant of AfterScope: the result of dump_audio is not looked at
AfterScope_ignore_error ==
    /\ pc' = "closed"
    /\ result' = result

\* what convert does once the writer's scope has ended
AfterScope ==
    /\ pc' = IF dump_res = "Ok" THEN "closed" ELSE "done"
    /\ result' = IF dump_res = "Ok" THEN result ELSE dump_res

\* the BufWriter leaves its scope and its flush succeeds: the file holds
\* every byte the writer accepted
DropWriter ==
    /\ pc = "dumped" /\ mode = "convert"
    /\ disk' = [disk EXCEPT ![output_path[1]] = <<written>>]
    /\ AfterScope
    /\ log' = Append(log, "drop")
    /\ UNCHANGED <<ksa_vars, artist_vars, ffi_vars, cli_vars, disk0, mode, input, output_dir, rpos, ncm, output_path, offset,
                   written, dump_res, tag_calls>>

\* the BufWriter leaves its scope and its flush fails after k bytes: the
\* drop ignores the error
DropWriterFail(k) ==
    /\ pc = "dumped" /\ mode = "convert"
    /\ k >= 0 /\ k < Len(written)
    /\ disk' = [disk EXCEPT ![output_path[1]] = <<SubSeq(written, 1, k)>>]
    /\ AfterScope
    /\ log' = Append(log, "drop_lost")
    /\ UNCHANGED <<ksa_vars, artist_vars, ffi_vars, cli_vars, disk0, mode, input, output_dir, rpos, ncm, output_path, offset,
                   written, dump_res, tag_calls>>

\* metadata is present: write_tags is called and succeeds
WriteTagsOk ==
    /\ pc = "closed" /\ mode = "convert"
    /\ ncm[1].metadata # <<>>
    /\ tag_calls' = Append(tag_calls, output_path[1])
    /\ result' = "Ok"
    /\ pc' = "done"
    /\ log' = Append(log, "tags_ok")
    /\ UNCHANGED <<ksa_vars, artist_vars, ffi_vars, cli_vars, disk0, mode, input, output_dir, disk, rpos, ncm, output_path, offset,
                   written, dump_res>>

\* mutant of WriteTagsFail: the output file is removed when tagging fails
WriteTagsFail_rollback ==
    /\ pc = "closed" /\ mode = "convert"
    /\ ncm[1].metadata # <<>>
    /\ tag_calls' = Append(tag_calls, output_path[1])
    /\ disk' = [disk EXCEPT ![output_path[1]] = <<>>]
    /\ result' = "Tag"
    /\ pc' = "done"
    /\ log' = Append(log, "tags_err")
    /\ UNCHANGED <<ksa_vars, artist_vars, ffi_vars, cli_vars, disk0, mode, input, output_dir, rpos, ncm, output_path, offset,
                   written, dump_res>>

\* metadata is present: write_tags is called and fails, convert returns Tag
WriteTagsFail ==
    /\ pc = "closed" /\ mode = "convert"
    /\ ncm[1].metadata # <<>>
    /\ tag_calls' = Append(tag_calls, output_path[1])
    /\ result' = "Tag"
    /\ pc' = "done"
    /\ log' = Append(log, "tags_err")
    /\ UNCHANGED <<ksa_vars, artist_vars, ffi_vars, cli_vars, disk0, mode, input, output_dir, disk, rpos, ncm, output_path, offset,
                   written, dump_res>>

\* metadata is absent: convert returns Ok(output_path)
ReturnOk ==
    /\ pc = "closed" /\ mode = "convert"
    /\ ncm[1].metadata = <<>>
    /\ result' = "Ok"
    /\ pc' = "done"
    /\ UNCHANGED <<ksa_vars, artist_vars, ffi_vars, cli_vars, disk0, mode, input, output_dir, disk, rpos, ncm, output_path, offset,
                   written, dump_res, tag_calls, log>>

\* the library caller gets dump_audio's result
LibraryReturn ==
    /\ pc = "dumped" /\ mode = "library"
    /\ result' = dump_res
    /\ pc' = "done"
    /\ UNCHANGED <<ksa_vars, artist_vars, ffi_vars, cli_vars, disk0, mode, input, output_dir, disk, rpos, ncm, output_path, offset,
                   written, dump_res, tag_calls, log>>

\* where a library caller may leave its reader
ClientSeekPositions ==
    IF ncm = <<>> THEN {}
    ELSE {0, ncm[1].audio_offset, ncm[1].audio_offset + 1,
          Len(InputBytes), Len(InputBytes) + 1}

\* the lengths a library caller's file may be cut to
ClientTruncateLengths ==
    IF ncm = <<>> THEN {}
    ELSE {ncm[1].audio_offset - 1, ncm[1].audio_offset, ncm[1].audio_offset + 2}

Next ==
    \/ Open
    \/ OpenFail
    \/ Parse
    \/ \E p \in ClientSeekPositions : ClientSeek(p)
    \/ \E l \in ClientTruncateLengths : ClientTruncate(l)
    \/ Create
    \/ CreateFail
    \/ DumpSeek
    \/ \E n \in 1..(MaxAudio + 1) : DumpIter(n)
    \/ DumpEof
    \/ DumpReadFail
    \/ \E n \in 1..(MaxAudio + 1), k \in 0..MaxAudio : DumpWriteFail(n, k)
    \/ DropWriter
    \/ \E k \in 0..MaxAudio : DropWriterFail(k)
    \/ WriteTagsOk
    \/ WriteTagsFail
    \/ ReturnOk
    \/ LibraryReturn

Spec == Init /\ [][Next]_vars

(* ------------------------------------------------------------------ *)
(* Properties                                                          *)
(* ------------------------------------------------------------------ *)

\* the input file as it was before the call
InputBytes0 == IF disk0[input] = <<>> THEN <<>> ELSE disk0[input][1]

\* the audio of the bytes f under container c: every byte at or after
\* audio_offset, XORed with the keystream byte of its distance from audio_offset
AudioOf(f, c) ==
    [k \in 1..(IF Len(f) > c.audio_offset THEN Len(f) - c.audio_offset ELSE 0) |->
        Xor(f[c.audio_offset + k], rc4_stream_byte(c.key_box, k - 1))]

InLog(e) == \E i \in 1..Len(log) : log[i] = e

Before(e1, e2) ==
    \A i \in 1..Len(log) : log[i] = e2 => \E j \in 1..(i - 1) : log[j] = e1

\* C1: when dump_audio returns Ok, whatever the reader's position was when it
\* was called, the writer holds exactly one byte per input byte at or after
\* audio_offset, and byte k is in[audio_offset + k] XOR rc4_stream_byte(key_box, k)
C1_DumpRestartsAtAudioOffset ==
    dump_res = "Ok" =>
        /\ Len(written) = (IF Len(InputBytes) > ncm[1].audio_offset
                           THEN Len(InputBytes) - ncm[1].audio_offset ELSE 0)
        /\ \A k \in 0..(Len(written) - 1) :
              written[k + 1] = Xor(InputBytes[ncm[1].audio_offset + k + 1],
                                   rc4_stream_byte(ncm[1].key_box, k))

\* a library caller moved its reader away from audio_offset + 3, and
\* dump_audio then wrote four bytes and returned Ok
C1_Witness ==
    /\ dump_res = "Ok"
    /\ InLog("client_seek")
    /\ Len(written) >= 4

\* C2: chunk invariance. While dump_audio runs, its running offset is the
\* number of bytes written and the reader's distance from audio_offset; when
\* it returns Ok, whatever the sizes of the reads were, the bytes written are
\* those a single read of the whole audio gives
C2_ChunkInvariance ==
    /\ pc = "dumping" =>
          /\ offset = Len(written)
          /\ rpos = ncm[1].audio_offset + offset
    /\ dump_res = "Ok" =>
          written = decrypt_chunk(ncm[1].key_box, 0,
                                  SliceFrom(InputBytes, ncm[1].audio_offset))

\* dump_audio is between two reads: the first reads returned two bytes in all
\* and left at least one
C2_Witness ==
    /\ pc = "dumping"
    /\ offset = 2
    /\ Avail >= 1

\* C3: after a successful parse, format is Mp3 exactly when the three input
\* bytes at audio_offset, XORed with keystream bytes 0, 1, 2, are 49 44 33,
\* and Flac otherwise, whatever the metadata says
C3_FormatFromAudioBytes ==
    pc = "parsed" =>
        /\ ncm[1].format \in {"Mp3", "Flac"}
        /\ ncm[1].format = "Mp3" <=>
              \A i \in 0..2 :
                 Xor(InputBytes[ncm[1].audio_offset + i + 1],
                     rc4_stream_byte(ncm[1].key_box, i)) = ID3_MAGIC[i + 1]

\* a file whose metadata says "mp3" is detected as Flac
C3_Witness ==
    /\ pc = "parsed"
    /\ ncm[1].metadata # <<>>
    /\ ncm[1].metadata[1].format = "mp3"
    /\ ncm[1].format = "Flac"

\* C4: when convert has reached the end of dump_audio, the extension of the
\* output path is mp3 exactly when the first three bytes written are 49 44 33,
\* and flac otherwise
C4_ExtensionAgreesWithOutput ==
    (mode = "convert" /\ dump_res = "Ok") =>
        /\ output_path[1][3] \in {"mp3", "flac"}
        /\ output_path[1][3] = "mp3" <=> StartsWith(written, ID3_MAGIC)

\* C5: an input of at least 8 bytes whose first 8 bytes are not the magic is
\* never parsed into a container, parse and convert return InvalidMagic on
\* it, and nothing is created on disk
C5_InvalidMagic ==
    (Len(InputBytes0) >= 8 /\ SubSeq(InputBytes0, 1, 8) # NCM_MAGIC) =>
        /\ ncm = <<>>
        /\ output_path = <<>>
        /\ disk = disk0
        /\ (InLog("parse_ok") \/ InLog("parse_err")) => result = "InvalidMagic"

\* convert returned InvalidMagic on a whole container whose magic differs in
\* its last byte only
C5_Witness ==
    /\ mode = "convert"
    /\ result = "InvalidMagic"
    /\ Len(InputBytes0) > 60
    /\ SubSeq(InputBytes0, 1, 7) = SubSeq(NCM_MAGIC, 1, 7)

\* C6: when write_tags fails after parse and dump_audio succeeded, convert
\* returns the Tag error and the output file is still at the output path,
\* with the bytes the writer's scope left in it
C6_TagFailureKeepsOutput ==
    (mode = "convert" /\ InLog("tags_err")) =>
        /\ pc = "done"
        /\ result = "Tag"
        /\ InLog("parse_ok") /\ InLog("dump_ok")
        /\ disk[output_path[1]] # <<>>
        /\ IsPrefix(disk[output_path[1]][1], written)

\* convert returned Tag and the output file holds at least three bytes
C6_Witness ==
    /\ result = "Tag"
    /\ disk[output_path[1]] # <<>>
    /\ Len(disk[output_path[1]][1]) >= 3

\* C7: once convert has returned, write_tags was called exactly when the
\* metadata is present and dump_audio succeeded; and when it returned Ok on an
\* input with meta_len = 0 and image_size = 0, write_tags was never called
\* and the output file holds exactly the decrypted audio of the input
C7_TagsOnlyWithMetadata ==
    (mode = "convert" /\ pc = "done") =>
        /\ tag_calls # <<>> <=>
              (ncm # <<>> /\ ncm[1].metadata # <<>> /\ dump_res = "Ok")
        /\ (result = "Ok" /\ ncm[1].metadata = <<>> /\ ncm[1].cover_image = <<>>) =>
              /\ tag_calls = <<>>
              /\ disk[output_path[1]] = <<AudioOf(InputBytes0, ncm[1])>>

\* C8: the steps of one convert happen in the order parse, create,
\* dump_audio, write_tags: the output file is created only after a successful
\* parse, dump_audio starts only after the creation, write_tags is called
\* only after dump_audio returned Ok, and a failed parse leaves the disk as
\* it was
C8_StepOrder ==
    mode = "convert" =>
        /\ Before("parse_ok", "create")
        /\ Before("create", "dump_begin")
        /\ Before("dump_ok", "tags_ok")
        /\ Before("dump_ok", "tags_err")
        /\ disk # disk0 => InLog("create")
        /\ InLog("parse_err") => (disk = disk0 /\ pc = "done")

\* a convert that went through every step
C8_Witness ==
    /\ pc = "done"
    /\ log = <<"open", "parse_ok", "create", "dump_begin", "dump_ok", "drop", "tags_ok">>
    /\ Len(written) >= 3

\* C9: at every step of dump_audio, also where it stops on a read or write
\* error, the bytes the writer has taken are a prefix of the decrypted audio
C9_WrittenIsPrefix ==
    ncm # <<>> => IsPrefix(written, AudioOf(InputBytes, ncm[1]))

\* dump_audio stopped on an error after two bytes or more, before the end
C9_Witness ==
    /\ dump_res = "Io"
    /\ Len(written) >= 2
    /\ Len(written) < Len(AudioOf(InputBytes, ncm[1]))

\* C14: when the reader holds no byte at or after audio_offset, the step
\* dump_audio takes after its seek writes nothing and is its return with Ok
\* (or the failure of the read itself)
C14_EmptyAudioDumpsNothing ==
    [][(pc = "dumping" /\ Len(InputBytes) <= ncm[1].audio_offset) =>
          /\ written' = <<>>
          /\ pc' = "dumped"
          /\ dump_res' = "Ok" \/ log' = Append(log, "dump_err")]_vars

\* dump_audio returned Ok and wrote nothing on a file that ends exactly at
\* audio_offset
C14_Witness ==
    /\ dump_res = "Ok"
    /\ written = <<>>
    /\ Len(InputBytes) = ncm[1].audio_offset

\* the position of the meta_len field of a container: after the magic, the
\* gap, the key_len field and the key_len bytes of the key
MetaLenPos(f) == 14 + u32_from_le_bytes(SubSeq(f, 11, 14))

MetaLenOf(f) == u32_from_le_bytes(SubSeq(f, MetaLenPos(f) + 1, MetaLenPos(f) + 4))

\* the bytes between the two cover length fields read at cp and the audio
CoverSpan(f, cp) ==
    LET cfl == u32_from_le_bytes(SubSeq(f, cp + 1, cp + 4))
        isz == u32_from_le_bytes(SubSeq(f, cp + 5, cp + 8))
    IN  IF isz > 0 THEN (IF cfl > isz THEN cfl ELSE isz) ELSE cfl

\* C10: after a successful parse the metadata is absent exactly when the
\* meta_len field is zero, and then the cover length fields are the 8 bytes
\* that follow the 5-byte gap right after the meta_len field
C10_MetadataAbsentIffZeroLength ==
    pc = "parsed" =>
        /\ ncm[1].metadata = <<>> <=> MetaLenOf(InputBytes) = 0
        /\ MetaLenOf(InputBytes) = 0 =>
              ncm[1].audio_offset =
                 MetaLenPos(InputBytes) + 4 + 5 + 8
                 + CoverSpan(InputBytes, MetaLenPos(InputBytes) + 4 + 5)

\* a parsed container without metadata and with a cover image
C10_Witness ==
    /\ pc = "parsed"
    /\ ncm[1].metadata = <<>>
    /\ ncm[1].cover_image # <<>>

(* ------------------------------------------------------------------ *)
(* NcmFile::parse on its own                                           *)
(* ------------------------------------------------------------------ *)

\* the layout of a container, read off its bytes: the position of the two
\* cover length fields (after the metadata and the 5-byte gap), the fields,
\* and the position of the audio
CoverPos(f) == MetaLenPos(f) + 4 + MetaLenOf(f) + 5

CoverFrameLenOf(f) == u32_from_le_bytes(SubSeq(f, CoverPos(f) + 1, CoverPos(f) + 4))

ImageSizeOf(f) == u32_from_le_bytes(SubSeq(f, CoverPos(f) + 5, CoverPos(f) + 8))

AudioStart(f) == CoverPos(f) + 8 + Max(CoverFrameLenOf(f), ImageSizeOf(f))

\* "ID3" under the keystream of "hello"
ID3_AUDIO_A == EncAudio(ID3_MAGIC, KEYSTREAM_A)

\* well-formed containers with every cover frame
CoverFiles ==
    { MkFile(NCM_MAGIC, KEYSEC_A, m, c, ID3_AUDIO_A) :
        m \in {METASEC_NONE, METASEC_MP3}, c \in CoverChoices }

\* a container with metadata, an image of two bytes and one byte of padding
PADDED_FILE == MkFile(NCM_MAGIC, KEYSEC_A, METASEC_MP3, COVER_PAD, ID3_AUDIO_A)

\* every cut of a well-formed container before its audio
TruncatedFiles ==
    UNION { { SubSeq(g, 1, l) : l \in 0..(AudioStart(g) - 1) } : g \in CoverFiles }

\* containers with a corrupt section, most with a later section corrupt or
\* missing as well, and the error kind of the first failing step
CorruptCases ==
    { [file |-> MkFile(BAD_MAGIC_LAST, KEYSEC_BADPAD, METASEC_BADB64, COVER_NONE, <<>>),
       kind |-> "InvalidMagic"],
      [file |-> NCM_MAGIC \o <<1, 2>> \o SubSeq(KEYSEC_BADPAD, 1, 20),
       kind |-> "Io"],
      [file |-> MkFile(NCM_MAGIC, KEYSEC_BADPAD, METASEC_BADB64, COVER_NONE, <<>>),
       kind |-> "Decrypt"],
      [file |-> NCM_MAGIC \o <<1, 2>> \o KEYSEC_ODD,
       kind |-> "Decrypt"],
      [file |-> MkFile(NCM_MAGIC, KEYSEC_A, METASEC_BADB64, COVER_CUT, <<>>),
       kind |-> "Base64"],
      [file |-> NCM_MAGIC \o <<1, 2>> \o KEYSEC_A \o METASEC_BADB64,
       kind |-> "Base64"],
      [file |-> MkFile(NCM_MAGIC, KEYSEC_A, METASEC_BADPAD, COVER_CUT, <<>>),
       kind |-> "Decrypt"],
      [file |-> MkFile(NCM_MAGIC, KEYSEC_A, METASEC_ODD, COVER_NONE, <<1>>),
       kind |-> "Decrypt"],
      [file |-> MkFile(NCM_MAGIC, KEYSEC_A, METASEC_BADJSON, COVER_CUT, <<1>>),
       kind |-> "Json"],
      [file |-> NCM_MAGIC \o <<1, 2>> \o KEYSEC_A \o SubSeq(METASEC_BADJSON, 1, 30),
       kind |-> "Io"],
      [file |-> MkFile(NCM_MAGIC, KEYSEC_A, METASEC_MP3, COVER_CUT, <<>>),
       kind |-> "Io"],
      [file |-> MkFile(NCM_MAGIC, KEYSEC_A, METASEC_MP3, COVER_NONE, <<1, 2>>),
       kind |-> "Io"] }

\* containers whose key or metadata section is too short for the slice the
\* parser takes of it, the first of them followed by corrupt metadata
ShortSectionFiles ==
    { MkFile(NCM_MAGIC, KEYSEC_SHORT, METASEC_BADB64, COVER_NONE, ID3_AUDIO_A),
      MkFile(NCM_MAGIC, KEYSEC_EMPTY, METASEC_NONE, COVER_NONE, ID3_AUDIO_A),
      MkFile(NCM_MAGIC, KEYSEC_A, METASEC_SHORT, COVER_NONE, ID3_AUDIO_A),
      MkFile(NCM_MAGIC, KEYSEC_A, METASEC_TINY, COVER_NONE, ID3_AUDIO_A) }

ParseInputs ==
    InputFiles \cup CoverFiles \cup TruncatedFiles
    \cup { c.file : c \in CorruptCases } \cup ShortSectionFiles

\* one call of NcmFile::parse on a reader over any of the inputs
InitParse ==
    /\ mode = "library"
    /\ input = <<"a", "song", "ncm">>
    /\ output_dir = <<>>
    /\ \E f \in ParseInputs : disk = [p \in Paths |-> IF p = input THEN <<f>> ELSE <<>>]
    /\ pc = "start"
    /\ rpos = 0
    /\ ncm = <<>>
    /\ output_path = <<>>
    /\ offset = 0
    /\ written = <<>>
    /\ dump_res = "none"
    /\ tag_calls = <<>>
    /\ result = "none"
    /\ log = <<>>
    /\ disk0 = disk
    /\ KsaIdle /\ ArtistIdle /\ FfiIdle /\ CliIdle

NextParse == Parse

SpecParse == InitParse /\ [][NextParse]_vars

\* C11: after a successful parse, cover_image is absent exactly when the
\* image_size field is zero; when present it is the image_size bytes that
\* follow the two cover length fields, whatever they hold and whatever
\* cover_frame_len says
C11_CoverIsImageSizeBytes ==
    pc = "parsed" =>
        /\ ncm[1].cover_image = <<>> <=> ImageSizeOf(InputBytes) = 0
        /\ ImageSizeOf(InputBytes) > 0 =>
              ncm[1].cover_image =
                 << SubSeq(InputBytes, CoverPos(InputBytes) + 9,
                           CoverPos(InputBytes) + 8 + ImageSizeOf(InputBytes)) >>

\* a parsed container with cover_frame_len = 0 whose cover is two bytes that
\* start no image format
C11_Witness ==
    /\ pc = "parsed"
    /\ CoverFrameLenOf(InputBytes) = 0
    /\ ncm[1].cover_image = << <<0, 1>> >>

\* C12: after a successful parse, audio_offset is P + 8 + max(cover_frame_len,
\* image_size), P being the position after the 5-byte gap: cover_frame_len
\* bytes are passed when image_size = 0 or cover_frame_len >= image_size, and
\* image_size bytes when image_size > cover_frame_len (no backward move)
C12_AudioOffsetAfterCover ==
    pc = "parsed" =>
        /\ ncm[1].audio_offset = AudioStart(InputBytes)
        /\ ImageSizeOf(InputBytes) = 0 =>
              ncm[1].audio_offset = CoverPos(InputBytes) + 8 + CoverFrameLenOf(InputBytes)
        /\ CoverFrameLenOf(InputBytes) >= ImageSizeOf(InputBytes) =>
              ncm[1].audio_offset = CoverPos(InputBytes) + 8 + CoverFrameLenOf(InputBytes)
        /\ ImageSizeOf(InputBytes) > CoverFrameLenOf(InputBytes) =>
              ncm[1].audio_offset = CoverPos(InputBytes) + 8 + ImageSizeOf(InputBytes)

\* a parsed container with metadata whose image is longer than a non-zero
\* cover_frame_len
C12_Witness ==
    /\ pc = "parsed"
    /\ ncm[1].metadata # <<>>
    /\ CoverFrameLenOf(InputBytes) > 0
    /\ ImageSizeOf(InputBytes) > CoverFrameLenOf(InputBytes)

\* C13: parse of a well-formed container cut anywhere before its audio
\* returns Io, and builds no container; the whole containers parse
C13_TruncatedBeforeAudioIsIo ==
    /\ (InputBytes0 \in TruncatedFiles /\ pc # "start") =>
          /\ pc = "done"
          /\ result = "Io"
          /\ ncm = <<>>
    /\ (InputBytes0 \in CoverFiles /\ pc # "start") =>
          /\ pc = "parsed"
          /\ ncm[1].audio_offset = AudioStart(InputBytes0)

\* parse returned Io on a container cut inside the padding of its cover, one
\* byte before the audio
C13_Witness ==
    /\ pc = "done"
    /\ result = "Io"
    /\ InputBytes0 = SubSeq(PADDED_FILE, 1, AudioStart(PADDED_FILE) - 1)

\* the error values of the library
NcmErrorKinds == {"InvalidMagic", "Io", "Decrypt", "Base64", "Json", "UnsupportedFormat", "Tag"}

\* C15: a parse that does not succeed reports an error value, and on a
\* container with a corrupt section the value is the kind of the first
\* failing step in layout order, whatever the later sections hold
C15_FirstFailureReported ==
    pc = "done" =>
        /\ result \in NcmErrorKinds
        /\ \A c \in CorruptCases : InputBytes0 = c.file => result = c.kind

(* ------------------------------------------------------------------ *)
(* cipher.rs: rc4_ksa, one action per iteration of its loop            *)
(* ------------------------------------------------------------------ *)

\* no file is converted
NoCall ==
    /\ input = <<"a", "song", "ncm">>
    /\ output_dir = <<>>
    /\ disk = [p \in Paths |-> <<>>]
    /\ pc = "start"
    /\ rpos = 0
    /\ ncm = <<>>
    /\ output_path = <<>>
    /\ offset = 0
    /\ written = <<>>
    /\ dump_res = "none"
    /\ tag_calls = <<>>
    /\ result = "none"
    /\ log = <<>>
    /\ disk0 = disk

\* "hello"
KEY_HELLO == <<104, 101, 108, 108, 111>>

\* "testkey"
KEY_TESTKEY == <<116, 101, 115, 116, 107, 101, 121>>

KeyBytes == {0, 1, 128, 255}

RECURSIVE KeysOfLen(_)
KeysOfLen(n) ==
    IF n = 0 THEN { <<>> }
    ELSE { Append(k, b) : k \in KeysOfLen(n - 1), b \in KeyBytes }

\* the keys rc4_ksa is run on: every key of 1..MaxKeyLen bytes over KeyBytes,
\* the keys of the tests, and keys of 255, 256 and 257 bytes (the key index
\* wraps once, at the last iteration, and never)
KsaKeys ==
    UNION { KeysOfLen(n) : n \in 1..MaxKeyLen }
    \cup { KEY_HELLO, KEY_TESTKEY }
    \cup { [k \in 1..n |-> (k * 7 + 3) % 256] : n \in {255, 256, 257} }

\* the textbook key scheduling step: j advances by S[i] and the key byte of
\* i modulo the key length, then S[i] and S[j] are swapped
std_ksa_step(S, j, key, i) ==
    LET j2 == (j + S[i + 1] + key[(i % Len(key)) + 1]) % 256
    IN  [S |-> [S EXCEPT ![i + 1] = S[j2 + 1], ![j2 + 1] = S[i + 1]], j |-> j2]

\* rc4_ksa on a key, after sbox is filled with 0..255 and before the loop
InitKsa ==
    /\ mode = "ksa"
    /\ NoCall /\ ArtistIdle /\ FfiIdle /\ CliIdle
    /\ ksa_key \in KsaKeys
    /\ ksa_i = 0
    /\ ksa_sbox = IdentityBox
    /\ ksa_last_byte = 0
    /\ ksa_key_offset = 0
    /\ std_sbox = IdentityBox
    /\ std_j = 0

\* iteration ksa_i of the loop of rc4_ksa (and of the reference run)
KsaStep ==
    /\ mode = "ksa"
    /\ ksa_i < 256
    /\ \E st \in { ksa_step([sbox |-> ksa_sbox, last_byte |-> ksa_last_byte,
                            key_offset |-> ksa_key_offset], ksa_key, ksa_i) } :
          /\ ksa_sbox' = st.sbox
          /\ ksa_last_byte' = st.last_byte
          /\ ksa_key_offset' = st.key_offset
    /\ \E sd \in { std_ksa_step(std_sbox, std_j, ksa_key, ksa_i) } :
          /\ std_sbox' = sd.S
          /\ std_j' = sd.j
    /\ ksa_i' = ksa_i + 1
    /\ UNCHANGED <<artist_vars, ffi_vars, cli_vars, disk0, mode, input, output_dir, disk, pc, rpos,
                   ncm, output_path, offset, written, dump_res, tag_calls, result, log,
                   ksa_key>>

NextKsa == KsaStep

SpecKsa == InitKsa /\ [][NextKsa]_vars

\* each of 0..255 exactly once
IsPermutation(box) ==
    /\ Len(box) = 256
    /\ \A v \in 0..255 : \E k \in 1..256 : box[k] = v

\* C16: for every non-empty key the S-box of rc4_ksa is a permutation of
\* 0..255 after each iteration of the loop, and the S-box at the end of the
\* loop is the S-box another run of rc4_ksa on the same key returns
C16_KsaPermutation ==
    mode = "ksa" =>
        /\ IsPermutation(ksa_sbox)
        /\ ksa_i = 256 => ksa_sbox = rc4_ksa(ksa_key)

\* the loop has ended on the key "hello" and has moved every one of the
\* first eight entries
C16_Witness ==
    /\ ksa_i = 256
    /\ ksa_key = KEY_HELLO
    /\ \A k \in 1..8 : ksa_sbox[k] # k - 1

\* C17: after each iteration rc4_ksa has the S-box of the textbook key
\* scheduling, its last_byte is the textbook j and its key_offset is the
\* iteration count modulo the key length
C17_KsaIsStandardRc4 ==
    mode = "ksa" =>
        /\ ksa_sbox = std_sbox
        /\ ksa_last_byte = std_j
        /\ ksa_i < 256 => ksa_key_offset = ksa_i % Len(ksa_key)

\* the iteration just made had c = i (a swap of an entry with itself), in a
\* run that has already permuted the S-box
C17_Witness ==
    /\ ksa_i > 1
    /\ ksa_last_byte = ksa_i - 1
    /\ std_sbox # IdentityBox
    /\ Len(ksa_key) > 1

(* ------------------------------------------------------------------ *)
(* metadata.rs: artist_names                                           *)
(* ------------------------------------------------------------------ *)

ValueChoices ==
    { <<"String", "X">>, <<"String", "Y">>, <<"String", "">>, <<"Number", 0>>, <<"Null">> }

\* artist entries: empty, a single value, a value followed by an id, and an
\* id followed by a string
EntryChoices ==
    { <<>> }
    \cup { <<v>> : v \in ValueChoices }
    \cup { <<v, <<"Number", 1>> >> : v \in ValueChoices }
    \cup { << <<"Number", 7>>, <<"String", "Z">> >> }

RECURSIVE ArtistsOfLen(_)
ArtistsOfLen(n) ==
    IF n = 0 THEN { <<>> }
    ELSE { Append(l, e) : l \in ArtistsOfLen(n - 1), e \in EntryChoices }

ArtistLists == UNION { ArtistsOfLen(n) : n \in 0..MaxArtists }

\* a metadata record with any of the artist lists
InitArtist ==
    /\ mode = "artist"
    /\ NoCall /\ KsaIdle /\ FfiIdle /\ CliIdle
    /\ artist \in ArtistLists
    /\ names = <<>>

\* meta.artist_names()
ArtistNames ==
    /\ mode = "artist"
    /\ names = <<>>
    /\ names' = <<artist_names(artist)>>
    /\ UNCHANGED <<ksa_vars, ffi_vars, cli_vars, disk0, mode, input, output_dir, disk, pc, rpos,
                   ncm, output_path, offset, written, dump_res, tag_calls, result, log,
                   artist>>

NextArtist == ArtistNames

SpecArtist == InitArtist /\ [][NextArtist]_vars

\* an entry that has a name: it is not empty and its first element is a string
HasName(a) == Len(a) > 0 /\ a[1][1] = "String"

\* the names of the first n entries that have one, each followed by " / "
RECURSIVE NamesUpTo(_, _)
NamesUpTo(l, n) ==
    IF n = 0 THEN ""
    ELSE NamesUpTo(l, n - 1) \o (IF HasName(l[n]) THEN l[n][1][2] \o " / " ELSE "")

\* C19: artist_names returns the first elements of the entries that have a
\* string as first element, in the order of the list, with " / " between
\* them; the other entries are skipped, and a list without any named entry
\* (the empty list among them) gives the empty string
C19_ArtistNamesJoined ==
    names # <<>> =>
        /\ names[1] \o " / " = NamesUpTo(artist, Len(artist))
           \/ (names[1] = "" /\ \A k \in 1..Len(artist) : ~HasName(artist[k]))
        /\ artist = <<>> => names[1] = ""

\* three entries, the second with an id where the name should be, gave "X / Y"
C19_Witness ==
    /\ Len(artist) = 3
    /\ ~HasName(artist[2])
    /\ Len(artist[2]) = 2
    /\ names = <<"X / Y">>

(* ------------------------------------------------------------------ *)
(* ncmdump-ffi: CreateNeteaseCrypt, Dump, FixMetadata, Destroy         *)
(* ------------------------------------------------------------------ *)

\* a directory argument whose bytes are not UTF-8
NonUtf8Dir == "<not UTF-8>"

\* the output_path argument of Dump: <<>> is the null pointer
FfiDirs == { <<>>, <<"b">>, <<NonUtf8Dir>> }

\* files on which parse aborts: a key section that decrypts to 7 bytes, and
\* a meta_len of 5
FfiAbortFiles ==
    { MkFile(NCM_MAGIC, KEYSEC_SHORT, METASEC_MP3, COVER_NONE, ID3_AUDIO_A),
      MkFile(NCM_MAGIC, KEYSEC_A, METASEC_SHORT, COVER_NONE, ID3_AUDIO_A) }

\* the files behind the handles: with metadata, without, FLAC audio of four
\* bytes, a wrong magic, and the files on which parse aborts
FfiFiles ==
    { MkFile(NCM_MAGIC, KEYSEC_A, METASEC_MP3, COVER_PAD, ID3_AUDIO_A),
      MkFile(NCM_MAGIC, KEYSEC_B, METASEC_NONE, COVER_NONE,
             EncAudio(<<102, 76, 97, 67>>, KEYSTREAM_B)),
      MkFile(BAD_MAGIC_LAST, KEYSEC_A, METASEC_MP3, COVER_NONE, ID3_AUDIO_A) }
    \cup FfiAbortFiles

\* the program holds no handle yet; the file to open is on disk
InitFfi ==
    /\ mode = "ffi"
    /\ input \in InputPaths
    /\ output_dir = <<>>
    /\ \E f \in FfiFiles : disk = [p \in Paths |-> IF p = input THEN <<f>> ELSE <<>>]
    /\ pc = "start"
    /\ rpos = 0
    /\ ncm = <<>>
    /\ output_path = <<>>
    /\ offset = 0
    /\ written = <<>>
    /\ dump_res = "none"
    /\ tag_calls = <<>>
    /\ result = "none"
    /\ log = <<>>
    /\ disk0 = disk
    /\ KsaIdle /\ ArtistIdle /\ FfiIdle /\ CliIdle

\* the closure of CreateNeteaseCrypt: the handle, null (<<>>) when the path is
\* not UTF-8, File::open fails or parse returns an error, or a panic when
\* parse aborts
create_closure(open_ok, f, path) ==
    IF ~open_ok THEN [panic |-> FALSE, val |-> <<>>]
    ELSE Bind(parse(f), LAMBDA r :
            IF r.ok
            THEN [panic |-> FALSE,
                  val |-> <<[path         |-> path,
                             dump_path    |-> <<>>,
                             metadata     |-> r.val.metadata,
                             cover        |-> r.val.cover_image,
                             key_box      |-> r.val.key_box,
                             audio_offset |-> r.val.audio_offset,
                             format       |-> r.val.format]>>]
            ELSE IF r.err = "Panic" THEN [panic |-> TRUE, val |-> <<>>]
            ELSE [panic |-> FALSE, val |-> <<>>])

\* mutant of catch_unwind: the panic of the closure is not caught
catch_unwind_absent(c) == IF c.panic THEN Err("Panic") ELSE Ok(c.val)

\* std::panic::catch_unwind: Ok of what the closure returns, or Err when the
\* closure panics
catch_unwind(c) == IF c.panic THEN Err("Any") ELSE Ok(c.val)

\* Result::unwrap_or
unwrap_or(r, default) == IF r.ok THEN r.val ELSE default

\* CreateNeteaseCrypt(path): the closure under catch_unwind, null on a
\* caught panic. A panic that is not caught leaves the extern "C" function
\* and ends the program of the caller.
CreateNeteaseCrypt ==
    /\ pc = "start" /\ mode = "ffi"
    /\ \E open_ok \in BOOLEAN :
       \E r \in { catch_unwind(create_closure(open_ok, InputBytes, input)) } :
          IF ~r.ok /\ r.err = "Panic"
          THEN /\ handle' = handle
               /\ result' = "abort"
               /\ pc' = "done"
          ELSE /\ handle' = unwrap_or(r, <<>>)
               /\ result' = result
               /\ pc' = "idle"
    /\ ffi_calls' = Append(ffi_calls, "CreateNeteaseCrypt")
    /\ UNCHANGED <<ksa_vars, artist_vars, cli_vars, disk0, mode, input, output_dir, disk, rpos, ncm,
                   output_path, offset, written, dump_res, tag_calls, log,
                   ffi_arg, ffi_ret, ok_path>>

\* Dump's dump_path: the directory given, else the parent of the handle's
\* path, joined with the stem and the extension of the handle's format
ffi_dump_path(nc, arg) ==
    <<IF arg = <<>> THEN nc.path[1] ELSE arg[1], nc.path[2], extension(nc.format)>>

\* a Dump that returns 1 before dump_audio is called: why is "null" (null
\* handle), "utf8" (the directory is not UTF-8), "open" (File::open of the
\* handle's path fails) or "create" (File::create of dump_path fails)
DumpReject(arg, why) ==
    /\ pc = "idle" /\ mode = "ffi"
    /\ Len(ffi_calls) < MaxFfiCalls
    /\ \/ why = "null" /\ handle = <<>>
       \/ why = "utf8" /\ handle # <<>> /\ arg = <<NonUtf8Dir>>
       \/ why \in {"open", "create"} /\ handle # <<>> /\ arg # <<NonUtf8Dir>>
    /\ ffi_arg' = arg
    /\ ffi_ret' = 1
    /\ ffi_calls' = Append(ffi_calls, "Dump")
    /\ log' = <<"reject_" \o why>>
    /\ UNCHANGED <<ksa_vars, artist_vars, cli_vars, disk0, mode, input, output_dir, disk, pc, rpos,
                   ncm, output_path, offset, written, dump_res, tag_calls, result,
                   handle, ok_path>>

\* Dump up to its call of dump_audio: the handle's file is reopened, the
\* container is rebuilt with from_parts, the output file is created (and
\* truncated) behind a new BufWriter
DumpCreate(arg) ==
    /\ pc = "idle" /\ mode = "ffi"
    /\ Len(ffi_calls) < MaxFfiCalls
    /\ handle # <<>> /\ arg # <<NonUtf8Dir>>
    /\ LET p == ffi_dump_path(handle[1], arg)
       IN  /\ output_path' = <<p>>
           /\ disk' = [disk EXCEPT ![p] = << <<>> >>]
    /\ ncm' = <<from_parts(handle[1].key_box, handle[1].audio_offset)>>
    /\ rpos' = 0
    /\ offset' = 0
    /\ written' = <<>>
    /\ dump_res' = "none"
    /\ pc' = "created"
    /\ ffi_arg' = arg
    /\ ffi_calls' = Append(ffi_calls, "Dump")
    /\ log' = <<"open", "create">>
    /\ UNCHANGED <<ksa_vars, artist_vars, cli_vars, disk0, mode, input, output_dir, tag_calls,
                   result, handle, ffi_ret, ok_path>>

\* what Dump does after dump_audio: 1 on an error; else the handle's
\* dump_path is set and 0 is returned
DumpResult ==
    /\ ffi_ret' = IF dump_res = "Ok" THEN 0 ELSE 1
    /\ handle' = IF dump_res = "Ok"
                 THEN <<[handle[1] EXCEPT !.dump_path = output_path]>>
                 ELSE handle
    /\ ok_path' = IF ffi_ret' = 0 THEN output_path ELSE ok_path
    /\ pc' = "idle"

\* Dump returns and its BufWriter is dropped; the flush of the drop succeeds
DumpReturn ==
    /\ pc = "dumped" /\ mode = "ffi"
    /\ DumpResult
    /\ disk' = [disk EXCEPT ![output_path[1]] = <<written>>]
    /\ log' = Append(log, "drop")
    /\ UNCHANGED <<ksa_vars, artist_vars, cli_vars, disk0, mode, input, output_dir, rpos, ncm,
                   output_path, offset, written, dump_res, tag_calls, result,
                   ffi_arg, ffi_calls>>

\* Dump returns and its BufWriter is dropped; the flush of the drop fails
\* after k bytes and the drop ignores it
DumpReturnFlushFail(k) ==
    /\ pc = "dumped" /\ mode = "ffi"
    /\ k >= 0 /\ k < Len(written)
    /\ DumpResult
    /\ disk' = [disk EXCEPT ![output_path[1]] = <<SubSeq(written, 1, k)>>]
    /\ log' = Append(log, "drop_lost")
    /\ UNCHANGED <<ksa_vars, artist_vars, cli_vars, disk0, mode, input, output_dir, rpos, ncm,
                   output_path, offset, written, dump_res, tag_calls, result,
                   ffi_arg, ffi_calls>>

\* mutant of FixMetadata: the path tagged is the output path of the last
\* Dump, whatever that Dump returned
FixMetadata_last_output ==
    /\ pc = "idle" /\ mode = "ffi"
    /\ Len(ffi_calls) < MaxFfiCalls
    /\ tag_calls' = IF handle # <<>> /\ output_path # <<>>
                       /\ handle[1].metadata # <<>>
                    THEN Append(tag_calls, output_path[1])
                    ELSE tag_calls
    /\ ffi_calls' = Append(ffi_calls, "FixMetadata")
    /\ UNCHANGED <<ksa_vars, artist_vars, cli_vars, disk0, mode, input, output_dir, disk, pc, rpos,
                   ncm, output_path, offset, written, dump_res, result, log,
                   handle, ffi_arg, ffi_ret, ok_path>>

\* FixMetadata(handle): tag_write on the handle's dump_path when the handle
\* is not null and holds a dump_path and metadata; its result is dropped
FixMetadata ==
    /\ pc = "idle" /\ mode = "ffi"
    /\ Len(ffi_calls) < MaxFfiCalls
    /\ tag_calls' = IF handle # <<>> /\ handle[1].dump_path # <<>>
                       /\ handle[1].metadata # <<>>
                    THEN Append(tag_calls, handle[1].dump_path[1])
                    ELSE tag_calls
    /\ ffi_calls' = Append(ffi_calls, "FixMetadata")
    /\ UNCHANGED <<ksa_vars, artist_vars, cli_vars, disk0, mode, input, output_dir, disk, pc, rpos,
                   ncm, output_path, offset, written, dump_res, result, log,
                   handle, ffi_arg, ffi_ret, ok_path>>

\* DestroyNeteaseCrypt(handle): the handle is freed; no call follows
DestroyNeteaseCrypt ==
    /\ pc = "idle" /\ mode = "ffi"
    /\ Len(ffi_calls) < MaxFfiCalls
    /\ handle' = <<>>
    /\ pc' = "done"
    /\ ffi_calls' = Append(ffi_calls, "DestroyNeteaseCrypt")
    /\ UNCHANGED <<ksa_vars, artist_vars, cli_vars, disk0, mode, input, output_dir, disk, rpos, ncm,
                   output_path, offset, written, dump_res, tag_calls, result, log,
                   ffi_arg, ffi_ret, ok_path>>

NextFfi ==
    \/ CreateNeteaseCrypt
    \/ \E arg \in FfiDirs, why \in {"null", "utf8", "open", "create"} : DumpReject(arg, why)
    \/ \E arg \in FfiDirs : DumpCreate(arg)
    \/ DumpSeek
    \/ \E n \in 1..(MaxAudio + 1) : DumpIter(n)
    \/ DumpEof
    \/ DumpReadFail
    \/ \E n \in 1..(MaxAudio + 1), k \in 0..MaxAudio : DumpWriteFail(n, k)
    \/ DumpReturn
    \/ \E k \in 0..MaxAudio : DumpReturnFlushFail(k)
    \/ FixMetadata
    \/ DestroyNeteaseCrypt

SpecFfi == InitFfi /\ [][NextFfi]_vars

\* the S-boxes of the two keys of the input files
KEYBOX_A == rc4_ksa(KEY_HELLO)

KEYBOX_B == rc4_ksa(KEY_TESTKEY)

\* the S-box and the first keystream bytes of the key section of a container
KeyBoxOf(f) == IF SubSeq(f, 11, 46) = KEYSEC_A THEN KEYBOX_A ELSE KEYBOX_B

KeystreamOf(f) == IF SubSeq(f, 11, 46) = KEYSEC_A THEN KEYSTREAM_A ELSE KEYSTREAM_B

\* C18: the key_box of a handle, and of the container each Dump rebuilds from
\* it, is at every step the S-box the key scheduling gave, however many times
\* dump_audio has run; and rc4_stream_byte(S, n) is the entry
\* S[(S[j] + S[(S[j] + j) & 0xff]) & 0xff] with j = (n + 1) & 0xff of that box
C18_KeyBoxNeverMutated ==
    /\ handle # <<>> => handle[1].key_box = KeyBoxOf(InputBytes0)
    /\ ncm # <<>> =>
          /\ ncm[1].key_box = KeyBoxOf(InputBytes0)
          /\ \A n \in 0..11 :
                rc4_stream_byte(ncm[1].key_box, n) = KeystreamOf(InputBytes0)[n + 1]
          /\ \A n \in {0, 1, 2, 254, 255, 256, 511} :
                LET S == ncm[1].key_box
                    j == (n + 1) % 256
                IN  rc4_stream_byte(S, n)
                       = S[((S[j + 1] + S[((S[j + 1] + j) % 256) + 1]) % 256) + 1]

\* a second Dump on the same handle has decrypted four bytes
C18_Witness ==
    /\ Len(SelectSeq(ffi_calls, LAMBDA c : c = "Dump")) = 2
    /\ dump_res = "Ok"
    /\ Len(written) = 4

\* the last call was a Dump that failed in the way e
LastLog(e) == Len(log) > 0 /\ log[Len(log)] = e

\* C20: once a Dump has returned, it returned 0 or 1; it returned 0 exactly
\* when the handle's file was reopened, the output file was created and the
\* output file holds the whole decrypted audio of the handle's file, and 1
\* after every failure; a Dump that returned 0 left its output path in the
\* handle
C20_DumpReturnCode ==
    (mode = "ffi" /\ pc = "idle" /\ ffi_ret # -1) =>
        /\ ffi_ret \in {0, 1}
        /\ ffi_ret = 0 <=>
              /\ handle # <<>>
              /\ LastLog("drop") \/ LastLog("drop_lost")
              /\ dump_res = "Ok"
              /\ disk[output_path[1]] = <<AudioOf(InputBytes0, handle[1])>>
        /\ ffi_ret = 0 => handle[1].dump_path = output_path

\* C20, the part on the stored path: a step that changes the handle's
\* dump_path is the return of a Dump with 0, and a Dump that returns 1 leaves
\* the handle as it was
C20_DumpPathOnlyOnSuccess ==
    [][(mode = "ffi" /\ handle # <<>> /\ handle' # <<>>) =>
          /\ handle'[1].dump_path # handle[1].dump_path =>
                (ffi_ret' = 0 /\ dump_res = "Ok" /\ handle'[1].dump_path = output_path)
          /\ (ffi_ret' = 1 /\ ffi_calls' # ffi_calls) => handle' = handle
          /\ (pc = "dumped" /\ ffi_ret' = 1) => handle' = handle]_vars

\* C21: a step that calls write_tags is a FixMetadata on a handle that holds
\* metadata, made after a Dump on the handle returned 0, and the path it
\* tags is the output path of the most recent Dump that returned 0; a
\* FixMetadata on a null handle, or on a handle without metadata or without
\* a dump path, changes nothing
C21_FixMetadataAfterDump ==
    [][mode = "ffi" =>
          /\ tag_calls' # tag_calls =>
                /\ ffi_calls' = Append(ffi_calls, "FixMetadata")
                /\ handle # <<>>
                /\ handle[1].metadata # <<>>
                /\ ok_path # <<>>
                /\ tag_calls' = Append(tag_calls, ok_path[1])
          /\ (/\ ffi_calls' = Append(ffi_calls, "FixMetadata")
              /\ \/ handle = <<>>
                 \/ handle[1].metadata = <<>>
                 \/ handle[1].dump_path = <<>>) =>
                UNCHANGED <<disk, handle, tag_calls, ffi_ret, ok_path, pc>>]_vars

\* FixMetadata tagged the output of the first Dump, after a second Dump into
\* another directory had returned 1
C21_Witness ==
    /\ ffi_calls = <<"CreateNeteaseCrypt", "Dump", "Dump", "FixMetadata">>
    /\ ffi_ret = 1
    /\ output_path # ok_path
    /\ ok_path # <<>>
    /\ tag_calls = <<ok_path[1]>>

\* C22: no abort reaches the caller of the shim. CreateNeteaseCrypt returns
\* null or the handle of the file it parsed, and null on the files on which
\* parse aborts; every Dump returns 0 or 1, on a null handle 1
C22_PanicSafe ==
    mode = "ffi" =>
        /\ result # "abort"
        /\ (pc # "start" /\ handle # <<>>) =>
              /\ handle[1].path = input
              /\ handle[1].audio_offset = AudioStart(InputBytes0)
              /\ handle[1].format \in {"Mp3", "Flac"}
        /\ (pc # "start" /\ InputBytes0 \in FfiAbortFiles) =>
              (handle = <<>> /\ pc \in {"idle", "done"})
        /\ (pc = "idle" /\ \E i \in 1..Len(ffi_calls) : ffi_calls[i] = "Dump") =>
              /\ ffi_ret \in {0, 1}
              /\ handle = <<>> => ffi_ret = 1

\* CreateNeteaseCrypt returned null on a file with a meta_len of 5, and the
\* Dump on the null handle returned 1
C22_Witness ==
    /\ ffi_calls = <<"CreateNeteaseCrypt", "Dump">>
    /\ pc = "idle"
    /\ MetaLenOf(InputBytes0) = 5
    /\ handle = <<>>
    /\ ffi_ret = 1

(* ------------------------------------------------------------------ *)
(* ncmdump-cli: the dump subcommand                                    *)
(* ------------------------------------------------------------------ *)

\* a container with metadata and the audio "ID3", one with a wrong magic and
\* one whose key section decrypts to 7 bytes
CLI_GOOD == MkFile(NCM_MAGIC, KEYSEC_A, METASEC_MP3, COVER_NONE, ID3_AUDIO_A)

CLI_BAD == MkFile(BAD_MAGIC_LAST, KEYSEC_A, METASEC_MP3, COVER_NONE, ID3_AUDIO_A)

CLI_ABORT == MkFile(NCM_MAGIC, KEYSEC_SHORT, METASEC_NONE, COVER_NONE, ID3_AUDIO_A)

\* the directories of the run: "a/s" is a subdirectory of "a"
CliDirs == {"a", "a/s", "b", "o"}

CliPaths == { <<d, st, e>> : d \in CliDirs, st \in {"x", "y"}, e \in {"ncm", "mp3", "flac"} }

\* the paths given as positional arguments
CliArgs == { <<"a", "x", "ncm">>, <<"b", "y", "ncm">> }

RECURSIVE ArgLists(_)
ArgLists(n) ==
    IF n = 0 THEN { <<>> }
    ELSE ArgLists(n - 1)
         \cup { Append(l, f) : l \in { q \in ArgLists(n - 1) : Len(q) = n - 1 }, f \in CliArgs }

\* the disks of the run: each source file is absent or one of the containers
CliDisks ==
    { [p \in CliPaths |->
          IF p = <<"a", "x", "ncm">> THEN ax
          ELSE IF p = <<"b", "y", "ncm">> THEN by
          ELSE IF p = <<"a/s", "y", "ncm">> THEN asy
          ELSE <<>>] :
        ax \in {<<>>, <<CLI_GOOD>>, <<CLI_BAD>>, <<CLI_ABORT>>},
        by \in {<<CLI_GOOD>>, <<CLI_ABORT>>},
        asy \in {<<>>, <<CLI_GOOD>>} }

\* NcmFile::parse on each of the containers of the run
CliParsed == [f \in {CLI_GOOD, CLI_BAD, CLI_ABORT} |-> parse(f)]

\* the program is started: Cli::parse has filled files and the options
InitCli ==
    /\ mode = "cli"
    /\ input = <<"a", "song", "ncm">>
    /\ output_dir \in { <<>>, <<"o">> }
    /\ disk \in CliDisks
    /\ pc = "start"
    /\ rpos = 0
    /\ ncm = <<>>
    /\ output_path = <<>>
    /\ offset = 0
    /\ written = <<>>
    /\ dump_res = "none"
    /\ tag_calls = <<>>
    /\ result = "none"
    /\ log = <<>>
    /\ disk0 = disk
    /\ KsaIdle /\ ArtistIdle /\ FfiIdle
    /\ files \in ArgLists(MaxFiles)
    /\ directory \in { <<>>, <<"a">> }
    /\ recursive \in BOOLEAN
    /\ remove \in BOOLEAN
    /\ cli_i = 0
    /\ exit_code = -1
    /\ attempts = <<>>
    /\ removals = <<>>

\* the existing files with the extension ncm in the directory dir, and with
\* rec also in its subdirectory
NcmEntries(d, dir, rec) ==
    { p \in DOMAIN d :
        /\ d[p] # <<>>
        /\ p[3] = "ncm"
        /\ p[1] = dir \/ (rec /\ dir = "a" /\ p[1] = "a/s") }

\* the sequences that hold each element of S once
Orderings(S) ==
    { q \in [1..Cardinality(S) -> S] : \A i, j \in 1..Cardinality(S) : q[i] = q[j] => i = j }

\* the exit code of a program whose main returns Err, and of one that panics
EXIT_FAILURE == 1

EXIT_PANIC == 101

\* the directory expansion of cmd_dump. With --recursive the walk skips the
\* entries it cannot read; without it read_dir lists every entry. The order
\* of a listing is the file system's.
Expand ==
    /\ pc = "start" /\ mode = "cli"
    /\ IF directory = <<>> THEN files' = files
       ELSE \E S \in SUBSET NcmEntries(disk, directory[1], recursive) :
               /\ ~recursive => S = NcmEntries(disk, directory[1], recursive)
               /\ \E q \in Orderings(S) : files' = files \o q
    /\ pc' = "expanded"
    /\ UNCHANGED <<ksa_vars, artist_vars, ffi_vars, disk0, mode, input, output_dir, disk,
                   rpos, ncm, output_path, offset, written, dump_res, tag_calls, result,
                   log, directory, recursive, remove, cli_i, exit_code, attempts,
                   removals>>

\* read_dir, or the reading of one of its entries, fails: cmd_dump returns
\* the error, main returns it and the program exits with the failure code
ExpandFail ==
    /\ pc = "start" /\ mode = "cli"
    /\ directory # <<>> /\ ~recursive
    /\ exit_code' = EXIT_FAILURE
    /\ pc' = "done"
    /\ UNCHANGED <<ksa_vars, artist_vars, ffi_vars, disk0, mode, input, output_dir, disk,
                   rpos, ncm, output_path, offset, written, dump_res, tag_calls, result,
                   log, files, directory, recursive, remove, cli_i, attempts, removals>>

\* files.is_empty(): std::process::exit(1)
NoFiles ==
    /\ pc = "expanded" /\ mode = "cli"
    /\ files = <<>>
    /\ exit_code' = 1
    /\ pc' = "done"
    /\ UNCHANGED <<ksa_vars, artist_vars, ffi_vars, disk0, mode, input, output_dir, disk,
                   rpos, ncm, output_path, offset, written, dump_res, tag_calls, result,
                   log, files, directory, recursive, remove, cli_i, attempts, removals>>

\* what one call of convert can return and leave on the disk d: Io when the
\* input does not open or the output is not created; the error of parse, or
\* its abort ("Panic"); after the creation of the output, which truncates
\* it, Io over an empty output, or Ok or (with metadata) Tag over the audio
convert_outcomes(d, file, out_dir) ==
    IF d[file] = <<>> THEN { [res |-> "Io", disk |-> d] }
    ELSE Bind(CliParsed[d[file][1]], LAMBDA r :
        IF ~r.ok THEN { [res |-> "Io", disk |-> d], [res |-> r.err, disk |-> d] }
        ELSE LET p     == derive_output_path(file, out_dir, r.val.format)
                 src   == IF p = file THEN <<>> ELSE d[file][1]
                 audio == AudioOf(src, r.val)
             IN  { [res |-> "Io", disk |-> d],
                   [res |-> "Io", disk |-> [d EXCEPT ![p] = << <<>> >>]] }
                 \cup { [res |-> x, disk |-> [d EXCEPT ![p] = <<audio>>]] :
                          x \in {"Ok"} \cup (IF r.val.metadata # <<>> THEN {"Tag"} ELSE {}) })

\* the disk after std::fs::remove_file(file), which fails on a missing file
\* and may fail on any
remove_file(d, file, rm_ok) ==
    IF rm_ok /\ d[file] # <<>>
    THEN [ok |-> TRUE, disk |-> [d EXCEPT ![file] = <<>>]]
    ELSE [ok |-> FALSE, disk |-> d]

\* mutant of Iterate: the source is removed whatever convert returned
Iterate_remove_always(e, rm_ok) ==
    /\ pc = "expanded" /\ mode = "cli"
    /\ cli_i < Len(files)
    /\ e \in convert_outcomes(disk, files[cli_i + 1], output_dir)
    /\ attempts' = Append(attempts, [file |-> files[cli_i + 1], res |-> e.res])
    /\ IF e.res = "Panic"
       THEN /\ exit_code' = EXIT_PANIC
            /\ pc' = "done"
            /\ UNCHANGED <<disk, cli_i, removals>>
       ELSE /\ cli_i' = cli_i + 1
            /\ UNCHANGED <<exit_code, pc>>
            /\ IF remove
               THEN \E rm \in { remove_file(e.disk, files[cli_i + 1], rm_ok) } :
                       /\ disk' = rm.disk
                       /\ removals' = Append(removals, [file |-> files[cli_i + 1], ok |-> rm.ok])
               ELSE /\ disk' = e.disk
                    /\ removals' = removals
    /\ UNCHANGED <<ksa_vars, artist_vars, ffi_vars, disk0, mode, input, output_dir,
                   rpos, ncm, output_path, offset, written, dump_res, tag_calls, result,
                   log, files, directory, recursive, remove>>

\* one iteration of the loop over files: convert, then on Ok and with
\* --remove remove_file, whose failure is a warning. An abort of convert is
\* not caught and ends the program.
Iterate(e, rm_ok) ==
    /\ pc = "expanded" /\ mode = "cli"
    /\ cli_i < Len(files)
    /\ e \in convert_outcomes(disk, files[cli_i + 1], output_dir)
    /\ attempts' = Append(attempts, [file |-> files[cli_i + 1], res |-> e.res])
    /\ IF e.res = "Panic"
       THEN /\ exit_code' = EXIT_PANIC
            /\ pc' = "done"
            /\ UNCHANGED <<disk, cli_i, removals>>
       ELSE /\ cli_i' = cli_i + 1
            /\ UNCHANGED <<exit_code, pc>>
            /\ IF e.res = "Ok" /\ remove
               THEN \E rm \in { remove_file(e.disk, files[cli_i + 1], rm_ok) } :
                       /\ disk' = rm.disk
                       /\ removals' = Append(removals, [file |-> files[cli_i + 1], ok |-> rm.ok])
               ELSE /\ disk' = e.disk
                    /\ removals' = removals
    /\ UNCHANGED <<ksa_vars, artist_vars, ffi_vars, disk0, mode, input, output_dir,
                   rpos, ncm, output_path, offset, written, dump_res, tag_calls, result,
                   log, files, directory, recursive, remove>>

\* every outcome of convert on the file of the iteration
IterationOutcomes ==
    IF cli_i < Len(files) /\ mode = "cli"
    THEN convert_outcomes(disk, files[cli_i + 1], output_dir) ELSE {}

\* mutant of CliReturn: the program reports a failed conversion in its
\* exit code
CliReturn_fail_on_errors ==
    /\ pc = "expanded" /\ mode = "cli"
    /\ files # <<>> /\ cli_i = Len(files)
    /\ exit_code' = IF \E k \in 1..Len(attempts) : attempts[k].res # "Ok" THEN 1 ELSE 0
    /\ pc' = "done"
    /\ UNCHANGED <<ksa_vars, artist_vars, ffi_vars, disk0, mode, input, output_dir, disk,
                   rpos, ncm, output_path, offset, written, dump_res, tag_calls, result,
                   log, files, directory, recursive, remove, cli_i, attempts, removals>>

\* the loop has ended: cmd_dump and main return Ok(())
CliReturn ==
    /\ pc = "expanded" /\ mode = "cli"
    /\ files # <<>> /\ cli_i = Len(files)
    /\ exit_code' = 0
    /\ pc' = "done"
    /\ UNCHANGED <<ksa_vars, artist_vars, ffi_vars, disk0, mode, input, output_dir, disk,
                   rpos, ncm, output_path, offset, written, dump_res, tag_calls, result,
                   log, files, directory, recursive, remove, cli_i, attempts, removals>>

NextCli ==
    \/ Expand
    \/ ExpandFail
    \/ NoFiles
    \/ \E e \in IterationOutcomes, rm_ok \in BOOLEAN : Iterate(e, rm_ok)
    \/ CliReturn

SpecCli == InitCli /\ [][NextCli]_vars

\* C23 as stated: the program exits with code 1 only when its file list is
\* empty, whatever errors occur while the directory is listed or the files
\* are converted
C23_ExitOneOnlyWithoutFiles ==
    (mode = "cli" /\ exit_code = 1) => files = <<>>

\* C23 as amended: the step that exits with code 1 is taken on an empty
\* list after the expansion, or is the failure of the listing of the
\* directory without --recursive; once convert was called on a file the
\* program does not exit with code 1, whatever the calls returned
C23_ExitOneWithoutFilesOrListing ==
    /\ [](mode = "cli" => (attempts # <<>> => exit_code # 1))
    /\ [][(mode = "cli" /\ exit_code' = 1) =>
             \/ pc = "expanded" /\ files = <<>>
             \/ pc = "start" /\ directory # <<>> /\ ~recursive]_vars

\* the program ended with code 0 after a conversion of a file found by the
\* recursive walk had returned InvalidMagic
C23_Witness ==
    /\ exit_code = 0
    /\ recursive /\ directory # <<>>
    /\ \E k \in 1..Len(attempts) :
          /\ attempts[k].res = "InvalidMagic"
          /\ k > Len(files) - 2

\* C24: convert is called on the files of the list in list order, once per
\* position, and a run that entered the loop has called it on every file
\* when the program ends, whatever the calls returned
C24_EveryFileAttempted ==
    mode = "cli" =>
        /\ Len(attempts) <= Len(files)
        /\ \A k \in 1..Len(attempts) : attempts[k].file = files[k]
        /\ Len(attempts) = cli_i \/ pc = "done"
        /\ (pc = "done" /\ exit_code # 1) => Len(attempts) = Len(files)

\* C25: a step that calls remove_file is an iteration with --remove whose
\* convert returned Ok, on the file of that iteration, and the loop goes on
\* to the next file whether or not the removal failed; a file disappears
\* from the disk only in such a step
C25_RemoveOnlyAfterSuccess ==
    [][mode = "cli" =>
          /\ removals' # removals =>
                /\ remove
                /\ cli_i < Len(files)
                /\ attempts' = Append(attempts, [file |-> files[cli_i + 1], res |-> "Ok"])
                /\ Len(removals') = Len(removals) + 1
                /\ removals'[Len(removals')].file = files[cli_i + 1]
                /\ cli_i' = cli_i + 1
                /\ pc' = "expanded" /\ exit_code' = -1
          /\ \A p \in DOMAIN disk :
                (disk[p] # <<>> /\ disk'[p] = <<>>) =>
                    /\ remove
                    /\ p = files[cli_i + 1]
                    /\ attempts' = Append(attempts, [file |-> p, res |-> "Ok"])
                    /\ removals' = Append(removals, [file |-> p, ok |-> TRUE])]_vars

\* a removal failed, the next file was converted and removed, and a file
\* whose conversion failed is still on the disk
C25_Witness ==
    /\ Len(removals) = 2
    /\ ~removals[1].ok
    /\ removals[2].ok
    /\ \E k \in 1..Len(attempts) :
          /\ attempts[k].res \notin {"Ok", "Panic"}
          /\ disk[attempts[k].file] # <<>>

(* ------------------------------------------------------------------ *)
(* Properties of parse and convert                                     *)
(* ------------------------------------------------------------------ *)

\* C26: every call of parse ends with a parsed container or with an error
\* value; a key section whose plaintext has fewer than 17 bytes or exactly
\* 17, a meta_len of 1..21 and a metadata plaintext of fewer than 6 bytes
\* give an error value
C26_ParseTotal ==
    pc # "start" =>
        /\ \/ pc = "parsed" /\ ncm # <<>> /\ result = "none"
           \/ pc = "done" /\ ncm = <<>> /\ result \in NcmErrorKinds
        /\ InputBytes0 \in ShortSectionFiles => result \in NcmErrorKinds

\* C27: a parsed container has three bytes or more at audio_offset; on a
\* container whose sections are well-formed and whose audio has 0, 1 or 2
\* bytes parse returns Io, and convert returns Io with the disk as it was
\* (no output file is created)
C27_ThreeAudioBytesNeeded ==
    /\ pc = "parsed" => Len(InputBytes) >= ncm[1].audio_offset + 3
    /\ (/\ InputBytes0 \in WellFormedFiles
        /\ Len(InputBytes0) < AudioStart(InputBytes0) + 3
        /\ pc \notin {"start", "opened"}) =>
          /\ pc = "done"
          /\ result = "Io"
          /\ ncm = <<>>
          /\ output_path = <<>>
          /\ disk = disk0

\* convert returned Io from parse on a container with metadata and two
\* bytes of audio
C27_Witness ==
    /\ mode = "convert"
    /\ result = "Io"
    /\ InLog("parse_err")
    /\ InputBytes0 \in WellFormedFiles
    /\ MetaLenOf(InputBytes0) > 0
    /\ Len(InputBytes0) = AudioStart(InputBytes0) + 2

\* C28: the output path convert derives differs from its input path, so the
\* input file holds at every step the bytes it held before the call
C28_OutputPathDiffers ==
    mode = "convert" =>
        /\ output_path # <<>> => output_path[1] # input
        /\ disk[input] = disk0[input]

\* C29: when convert goes on to write_tags or returns Ok, the output file
\* holds every byte dump_audio gave the writer; a convert whose buffered
\* writer failed to write its bytes out at the end of its scope returns Io
C29_FlushFailureIsReported ==
    mode = "convert" =>
        /\ (pc = "closed" \/ tag_calls # <<>> \/ result = "Ok") =>
              disk[output_path[1]] = <<written>>
        /\ (pc = "done" /\ InLog("drop_lost")) => result = "Io"

\* C30: a step in which FixMetadata calls write_tags finds at the path it
\* tags the whole decrypted audio of the handle's file
C30_TaggedFileIsComplete ==
    [][(mode = "ffi" /\ tag_calls' # tag_calls) =>
          disk[tag_calls'[Len(tag_calls')]] = <<AudioOf(InputBytes0, handle[1])>>]_vars

====
